---- MODULE Spec2Model ----
(***************************************************************************)
(* Model of the YTMusicLabBot conversation workflow: the per-user session  *)
(* map (SimpleMusicBot.user_sessions), the search / link / selection       *)
(* handlers of src/main.py and the search wrapper of src/youtube_service.py*)
(*                                                                         *)
(* Python values are represented as follows.                               *)
(*   str            a TLA+ string; a text that the code inspects character *)
(*                  by character (a query) is a sequence of 1-char strings *)
(*   None           PyNone where a dict is expected, NoneStr where a str is*)
(*   dict           a function whose domain is the set of keys present     *)
(*   list           a sequence (Python index i is TLA+ index i + 1)        *)
(*   f"a{x}b"       the tuple of its parts, <<"a", x, "b">>                *)
(*   callback data  the tuple of the fields that data.split(':') yields;   *)
(*                  the index field is the integer that int() parses       *)
(***************************************************************************)
EXTENDS Integers, Sequences, FiniteSets, TLC

VARIABLES
    user_sessions,  \* SimpleMusicBot.user_sessions: user id -> session payload
    downloads,      \* the rows of the downloads table, in insertion order
    promos,         \* the rows of the promos table, in insertion order
    delete_tasks,   \* auto_delete_message tasks created and not yet run
    temp_dir,       \* the files in SimpleMusicBot.temp_dir, <<title, ext>> each
    admin_user_ids, \* SimpleMusicBot.admin_user_ids, a list
    forced_channel, \* the bot_settings value of 'forced_channel', NoneText without a row
    users,          \* the user ids of the users table with is_active = 1
    in_flight,      \* the users whose handler awaits a call to a collaborator
    gate,           \* what the latest run of the access gate saw and decided
    last            \* what the latest handler run did (see Blank)

\* what the conversation handlers only read
config == <<admin_user_ids, forced_channel, users, in_flight>>

vars == <<user_sessions, downloads, promos, delete_tasks, temp_dir, config, gate, last>>

(***************************************************************************)
(* Bounds of the model                                                     *)
(***************************************************************************)
\* longest entry list the search collaborator returns when two users interact
MaxResults == 2
\* longest entry list the search collaborator returns when searches are studied
MaxEntries == 13
\* number of rows the downloads table may reach
MaxDownloads == 1

\* the files the temp directory holds at most
MaxTempFiles == 2

\* Telegram user ids of the people talking to the bot
Users == {1, 2}

\* self.primary_admin_id.  The source has 7176592290, which is beyond the
\* integers TLC computes with; ids are only ever compared for equality, so
\* the model uses an id that is none of Users.
primary_admin_id == 7

(***************************************************************************)
(* Python helpers                                                          *)
(***************************************************************************)
PyNone == [py_none |-> TRUE]
NoneStr == "<None>"

\* None where a text, the sequence of its characters, is expected
NoneText == << NoneStr >>

\* d.get(k, default)
Get(d, k, default) == IF k \in DOMAIN d THEN d[k] ELSE default

\* truth value of a str
TruthyStr(s) == s # "" /\ s # NoneStr

\* truth value of a text
TruthyText(s) == s # << >> /\ s # NoneText

\* `entry and isinstance(entry, dict)`: None and the empty dict are falsy
TruthyDict(d) == d # PyNone /\ DOMAIN d # {}

\* the characters str.lower() changes, each with its lower-case form
LowerPairs ==
    { <<"A", "a">>, <<"B", "b">>, <<"C", "c">>, <<"D", "d">>, <<"E", "e">>,
      <<"F", "f">>, <<"G", "g">>, <<"H", "h">>, <<"I", "i">>, <<"J", "j">>,
      <<"K", "k">>, <<"L", "l">>, <<"M", "m">>, <<"N", "n">>, <<"O", "o">>,
      <<"P", "p">>, <<"Q", "q">>, <<"R", "r">>, <<"S", "s">>, <<"T", "t">>,
      <<"U", "u">>, <<"V", "v">>, <<"W", "w">>, <<"X", "x">>, <<"Y", "y">>,
      <<"Z", "z">>, <<"À", "à">>, <<"Á", "á">>, <<"Â", "â">>, <<"Ã", "ã">>,
      <<"Ä", "ä">>, <<"Å", "å">>, <<"Æ", "æ">>, <<"Ç", "ç">>, <<"È", "è">>,
      <<"É", "é">>, <<"Ê", "ê">>, <<"Ë", "ë">>, <<"Ì", "ì">>, <<"Í", "í">>,
      <<"Î", "î">>, <<"Ï", "ï">>, <<"Ð", "ð">>, <<"Ñ", "ñ">>, <<"Ò", "ò">>,
      <<"Ó", "ó">>, <<"Ô", "ô">>, <<"Õ", "õ">>, <<"Ö", "ö">>, <<"Ø", "ø">>,
      <<"Ù", "ù">>, <<"Ú", "ú">>, <<"Û", "û">>, <<"Ü", "ü">>, <<"Ý", "ý">>,
      <<"Þ", "þ">> }

UpperToLower ==
    [c \in { pair[1] : pair \in LowerPairs } |->
        (CHOOSE pair \in LowerPairs : pair[1] = c)[2]]

\* str.lower()
Lower(s) == [i \in 1..Len(s) |-> IF s[i] \in DOMAIN UpperToLower
                                 THEN UpperToLower[s[i]] ELSE s[i]]

\* `sub in s` for two texts
Contains(sub, s) ==
    \E i \in 0..(Len(s) - Len(sub)) :
        \A j \in 1..Len(sub) : s[i + j] = sub[j]

\* the characters str.strip() removes, those str.isspace() holds for: tab,
\* line feed, vertical tab, form feed, carriage return, the separators
\* U+001C..U+001F, the blank, U+0085 and U+00A0.  The texts of this module
\* are written with the characters up to U+00FF.
Whitespace ==
    {"\t", "\n", "", "\f", "\r", "", "", "", "", " ", "", " "}

\* the characters int() removes around a number: those of str.strip()
\* without the separators U+001C..U+001F, which make int() raise
IntWhitespace == Whitespace \ {"", "", "", ""}

\* chars without the characters of `space` at its two ends
RECURSIVE StripChars(_, _)
StripChars(chars, space) ==
    IF chars = << >> THEN chars
    ELSE IF Head(chars) \in space THEN StripChars(Tail(chars), space)
    ELSE IF chars[Len(chars)] \in space
    THEN StripChars(SubSeq(chars, 1, Len(chars) - 1), space)
    ELSE chars

\* str.strip()
Strip(chars) == StripChars(chars, Whitespace)

\* str.startswith(prefix)
StartsWith(s, prefix) ==
    Len(s) >= Len(prefix) /\ SubSeq(s, 1, Len(prefix)) = prefix

TestWord == <<"t", "e", "s", "t">>
DespacitoWord == <<"d", "e", "s", "p", "a", "c", "i", "t", "o">>

(***************************************************************************)
(* YouTubeService.search_videos                                            *)
(***************************************************************************)
\* the record search_videos builds for one accepted entry
VideoInfo(video_id, title, uploader) ==
    [id |-> video_id,
     title |-> title,
     channel |-> uploader,
     url |-> <<"https://www.youtube.com/watch?v=", video_id>>,
     thumbnail |-> <<"https://img.youtube.com/vi/", video_id, "/maxresdefault.jpg">>]

\* the dummy result the outermost handler returns for some queries
FallbackResults ==
    << [id |-> "kJQP7kiw5Fk",
        title |-> "Luis Fonsi - Despacito ft. Daddy Yankee",
        channel |-> "LuisFonsiVEVO",
        url |-> <<"https://www.youtube.com/watch?v=", "kJQP7kiw5Fk">>,
        thumbnail |-> <<"https://img.youtube.com/vi/", "kJQP7kiw5Fk", "/maxresdefault.jpg">>] >>

\* entry.get('uploader', entry.get('channel', entry.get('uploader_id', 'Unknown Channel')))
Uploader(entry) ==
    Get(entry, "uploader", Get(entry, "channel", Get(entry, "uploader_id", "Unknown Channel")))

\* `if video_id and title != 'Unknown Title'`
Accepted(entry) ==
    /\ TruthyStr(Get(entry, "id", ""))
    /\ Get(entry, "title", "Unknown Title") # "Unknown Title"

\* the loop without its `if len(videos) >= max_results: break`
RECURSIVE CollectVideosNoBreak(_, _, _, _)
CollectVideosNoBreak(entries, i, videos, max_results) ==
    IF i > Len(entries)
    THEN [raised |-> FALSE, videos |-> videos]
    ELSE LET entry == entries[i] IN
         IF ~TruthyDict(entry) \/ ~Accepted(entry)
         THEN CollectVideosNoBreak(entries, i + 1, videos, max_results)
         ELSE IF entry["title"] = NoneStr
              THEN [raised |-> TRUE, videos |-> videos]
              ELSE CollectVideosNoBreak(entries, i + 1,
                       Append(videos, VideoInfo(entry["id"], entry["title"], Uploader(entry))),
                       max_results)

\* The loop over the entries, from entry i on, with the videos collected so
\* far.  The result is [raised, videos]: title[:50] raises for a title that
\* is None, which ends the loop in the outermost handler.
RECURSIVE CollectVideos(_, _, _, _)
CollectVideos(entries, i, videos, max_results) ==
    IF i > Len(entries)
    THEN [raised |-> FALSE, videos |-> videos]
    ELSE LET entry == entries[i] IN
         IF ~TruthyDict(entry)
         THEN CollectVideos(entries, i + 1, videos, max_results)
         ELSE IF Accepted(entry)
              THEN IF entry["title"] = NoneStr
                   THEN [raised |-> TRUE, videos |-> videos]
                   ELSE LET more == Append(videos,
                                      VideoInfo(entry["id"], entry["title"], Uploader(entry)))
                        IN IF Len(more) >= max_results
                           THEN [raised |-> FALSE, videos |-> more]
                           ELSE CollectVideos(entries, i + 1, more, max_results)
              ELSE IF Len(videos) >= max_results
                   THEN [raised |-> FALSE, videos |-> videos]
                   ELSE CollectVideos(entries, i + 1, videos, max_results)

\* what the outermost `except` returns
SearchFallback(query) ==
    IF Contains(TestWord, Lower(query)) \/ Contains(DespacitoWord, Lower(query))
    THEN FallbackResults
    ELSE << >>

\* `entries = search_results.get('entries', [])`, or the result itself when
\* it has no entries but a title
EntriesOf(search_results) ==
    LET entries == Get(search_results, "entries", << >>) IN
    IF entries = << >> /\ "title" \in DOMAIN search_results
    THEN << search_results >>
    ELSE entries

\* search_videos(query, max_results) given what yt-dlp does:
\*   ydl.kind = "ctor_raises"     YoutubeDL(...) raises
\*   ydl.kind = "extract_raises"  extract_info raises
\*   ydl.kind = "not_a_dict"      extract_info returns a truthy non-dict
\*   ydl.kind = "returns"         extract_info returns ydl.value (None or a dict)
SearchVideos(query, max_results, ydl) ==
    CASE ydl.kind = "ctor_raises" -> SearchFallback(query)
      [] ydl.kind = "extract_raises" -> << >>
      [] ydl.kind = "not_a_dict" -> << >>
      [] OTHER ->
            IF ~TruthyDict(ydl.value)
            THEN << >>
            ELSE LET r == CollectVideos(EntriesOf(ydl.value), 1, << >>, max_results)
                 IN IF r.raised THEN SearchFallback(query) ELSE r.videos

(***************************************************************************)
(* What the collaborators may answer                                       *)
(***************************************************************************)
\* entries as yt-dlp lists them for a search; some are unusable: a None
\* entry, an entry with an empty id, an entry without a title
Catalogue ==
    << [id |-> "v1", title |-> "Song A", uploader |-> "Ch1"],
       [id |-> "v2", title |-> "Song A", channel |-> "Ch2"],
       [id |-> "v3", title |-> "Song A", uploader_id |-> "Ch3"],
       PyNone,
       [id |-> "", title |-> "Song B", uploader |-> "Ch1"],
       [id |-> "v6", uploader |-> "Ch2"],
       [id |-> "v7", title |-> "Song B"],
       [id |-> "v8", title |-> "Song A", uploader |-> "Ch1"],
       [id |-> "v9", title |-> "Song B", uploader |-> "Ch1"],
       [id |-> "v10", title |-> "Song A", uploader |-> "Ch2"],
       [id |-> "v11", title |-> "Song B", uploader |-> "Ch2"],
       [id |-> "v12", title |-> "Song A", uploader |-> "Ch1"],
       [id |-> "v13", title |-> "Song B", uploader |-> "Ch1"],
       [id |-> "v14", title |-> "Song A", uploader |-> "Ch2"],
       [id |-> "v15", title |-> "Song B", uploader |-> "Ch2"],
       [id |-> "v16", title |-> "Song A", uploader |-> "Ch1"] >>

\* the n entries of the catalogue from position a on
Window(a, n) == SubSeq(Catalogue, a, a + n - 1)

\* the positions a search result list may start at
Offsets == {1, 2}

\* what yt-dlp may do on a search that lists at most maxN entries
YdlOutcomes(maxN) ==
    { [kind |-> k, value |-> PyNone] : k \in {"ctor_raises", "extract_raises", "not_a_dict"} }
    \cup { [kind |-> "returns", value |-> PyNone] }
    \cup { [kind |-> "returns", value |-> [entries |-> Window(a, n)]] :
             a \in Offsets, n \in 0..maxN }
    \cup { [kind |-> "returns", value |-> Catalogue[1]] }
    \cup { [kind |-> "returns",
            value |-> [entries |-> << Catalogue[1], [id |-> "v9", title |-> NoneStr] >>]] }

\* the texts users search for
Queries ==
    { <<"a", "b", "c">>,
      <<"T", "e", "s", "t">>,
      <<"D", "e", "s", "p", "a", "c", "i", "t", "o">> }

\* the links users submit
Urls ==
    { <<"h", "t", "t", "p", "s", ":", "/", "/", "y", "o", "u", "t", "u", ".",
        "b", "e", "/", "v", "1">>,
      <<"h", "t", "t", "p", "s", ":", "/", "/", "w", "w", "w", ".", "y", "o",
        "u", "t", "u", "b", "e", ".", "c", "o", "m", "/", "w", "a", "t", "c",
        "h", "?", "v", "=", "v", "2">> }

\* what yt-dlp may answer when asked to describe a link
DescribeOutcomes ==
    { [kind |-> "extract_raises", value |-> PyNone],
      [kind |-> "returns", value |-> PyNone],
      [kind |-> "returns", value |-> [id |-> "v1", title |-> "Song A", uploader |-> "Ch1",
                                      duration |-> 200, thumbnail |-> "t1"]],
      [kind |-> "returns", value |-> [id |-> "v2", uploader |-> "Ch2"]],
      [kind |-> "returns", value |-> [id |-> "v3", title |-> NoneStr]],
      [kind |-> "returns", value |-> [id |-> "v3", title |-> "Song C", uploader |-> NoneStr]] }

\* the describe answers used when two users interact
ShortDescribeOutcomes ==
    { d \in DescribeOutcomes : d.value = PyNone \/ Get(d.value, "title", "") = "Song A" }

\* the query and the link used when two users interact
ShortQueries == { <<"a", "b", "c">> }
ShortUrls ==
    { <<"h", "t", "t", "p", "s", ":", "/", "/", "y", "o", "u", "t", "u", ".",
        "b", "e", "/", "v", "1">> }

\* what yt-dlp may do on a search when two users interact
ShortYdlOutcomes ==
    { y \in YdlOutcomes(MaxResults) :
        \/ y.kind \in {"ctor_raises", "extract_raises"}
        \/ y.kind = "returns" /\ "entries" \in DOMAIN y.value /\ Len(y.value.entries) <= MaxResults }

\* a search that lists one entry whose uploader is None
NoChannelListed ==
    [kind |-> "returns",
     value |-> [entries |-> << [id |-> "v1", title |-> "Song A", uploader |-> NoneStr] >>]]

\* what the collaborators of a selection may do:
\*   "fetch_raises"        yt-dlp raises inside download_audio / download_video,
\*                         which catches the error and returns None
\*   "no_file"             download_audio / download_video returns None
\*   "send_raises"         the fetch returns a file, send_audio / send_video raises
\*   "sent"                the file is sent, and so is the promo if there is one
\*   "promo_fetch_raises"  the file is sent, get_current_promo raises
\*   "promo_raises"        the file is sent, send_photo of the promo raises
\*   "remove_raises"       the file is sent and recorded, os.remove raises
\*   "edit_raises"         the file is sent, recorded and removed, the edit of
\*                         the status message to "Download Complete" raises
FetchOutcomes ==
    {"fetch_raises", "no_file", "send_raises", "sent", "promo_fetch_raises", "promo_raises",
     "remove_raises", "edit_raises"}

\* the promo an earlier run left in the promos table
StoredPromo == [file_id |-> "photo1", caption |-> "Join us", created_at |-> 1]

\* The ids and indices a selection callback may carry.  The handlers parse
\* the id and never read it; v2 is an id that some result lists hold at
\* index 0, some at index 1 and some not at all.
CallbackIds == {"v2"}
CallbackIndices(maxN) == (0 - maxN - 1)..maxN

(***************************************************************************)
(* YouTubeService.get_video_info                                           *)
(***************************************************************************)
GetVideoInfo(url, ydl) ==
    IF ydl.kind = "extract_raises" \/ ~TruthyDict(ydl.value)
    THEN PyNone
    ELSE [id |-> Get(ydl.value, "id", ""),
          title |-> Get(ydl.value, "title", "Unknown Title"),
          channel |-> Get(ydl.value, "uploader", "Unknown Channel"),
          duration |-> Get(ydl.value, "duration", 0),
          thumbnail |-> Get(ydl.value, "thumbnail", ""),
          url |-> url]

(***************************************************************************)
(* The session map and the handlers of SimpleMusicBot                      *)
(***************************************************************************)
\* a session write that keeps an entry the user already has
SessionPutKeepsFirst(sessions, user_id, payload) ==
    [u \in DOMAIN sessions \cup {user_id} |->
        IF u \in DOMAIN sessions THEN sessions[u] ELSE payload]

\* self.user_sessions[user_id] = payload
SessionPut(sessions, user_id, payload) ==
    [u \in DOMAIN sessions \cup {user_id} |->
        IF u = user_id THEN payload ELSE sessions[u]]

\* list[i] with Python's indexing: a negative i counts from the end
PyIndex(list, i) == IF i >= 0 THEN list[i + 1] ELSE list[Len(list) + i + 1]

\* a keyboard whose buttons count the candidates from 1
SearchKeyboardFromOne(videos, query) ==
    [k \in 1..(2 * Len(videos)) |->
        IF k % 2 = 1
        THEN <<"download_mp3", videos[(k + 1) \div 2].id, (k + 1) \div 2>>
        ELSE <<"download_mp4", videos[k \div 2].id, k \div 2>>]
    \o << <<"get_lyrics", query>>, <<"search_again">> >>

\* the callback data of the buttons handle_search renders, row by row
SearchKeyboard(videos, query) ==
    [k \in 1..(2 * Len(videos)) |->
        IF k % 2 = 1
        THEN <<"download_mp3", videos[(k + 1) \div 2].id, ((k + 1) \div 2) - 1>>
        ELSE <<"download_mp4", videos[k \div 2].id, (k \div 2) - 1>>]
    \o << <<"get_lyrics", query>>, <<"search_again">> >>

\* the callback data of the buttons handle_lyrics_to_download renders
LyricsKeyboard(videos, song_info) ==
    [k \in 1..Len(videos) |-> <<"download_mp3", videos[k].id, k - 1>>]
    \o << <<"get_lyrics", song_info>> >>

\* the callback data of the buttons handle_youtube_url renders
UrlKeyboard(video_info) ==
    << <<"url_download_mp3", video_info.id>>,
       <<"url_download_mp4", video_info.id>>,
       <<"cancel_download">> >>

\* What one handler run did, as the user and the collaborators see it:
\*   handler   the handler that ran, user its effective user (0: none)
\*   text      the query or link it was given
\*   ydl       what yt-dlp did when the handler searched or described
\*   data      the callback data it was given
\*   found     what the search or the describe call returned to it
\*   replaced  whether its session write replaced no entry ("none"), an
\*             equal entry ("same") or a different entry ("other")
\*   shown     the message the user is left with
\*   keyboard  the callback data of the buttons under that message
\*   resolved  the video it resolved the selection to
\*   fetch     the fetch it started
\*   outcome   what the collaborators of that fetch did (see FetchOutcomes)
\*   delivered whether send_audio / send_video delivered the file
\*   file      the path download_audio / download_video returned, NoFile
\*             for None
\*   temp_file the fetched file in the temp directory: "none" was fetched,
\*             it was "removed", or it was "left" there
\*   promo     what became of the promo step
\*   promo_messages  the messages the promo step sent, in order
\*   raised    the exception that left the handler
\*   reply     the message an admin command was sent in reply to
\*   stored    the promo_data /addpromo wrote
\*   report    the counters of /broadcast when its loop ended
Blank(handler, user) ==
    [handler |-> handler, user |-> user, text |-> << >>, ydl |-> "none", data |-> << >>,
     found |-> << >>, replaced |-> "none", shown |-> "none", keyboard |-> << >>,
     resolved |-> PyNone, fetch |-> PyNone, outcome |-> "none", delivered |-> FALSE,
     file |-> << >>, temp_file |-> "none",
     promo |-> "none", promo_messages |-> << >>, raised |-> "none",
     reply |-> PyNone, stored |-> PyNone, report |-> PyNone]

\* the gate record before any gated handler ran
NoGate == [user |-> 0, admin |-> FALSE, channel |-> NoneText, member |-> "not_asked",
           allowed |-> TRUE]

Init ==
    /\ user_sessions = << >>
    /\ downloads = << >>
    /\ promos = << StoredPromo >>
    /\ delete_tasks = 0
    /\ temp_dir = {}
    /\ admin_user_ids = << primary_admin_id >>
    /\ forced_channel = NoneText
    /\ users = {}
    /\ in_flight = {}
    /\ gate = NoGate
    /\ last = Blank("none", 0)

\* what a session write does to the entry that was there
Replaced(user_id, payload) ==
    IF user_id \notin DOMAIN user_sessions THEN "none"
    ELSE IF user_sessions[user_id] = payload THEN "same" ELSE "other"

\* a handle_search that stores the empty list it was given
HandleSearchStoresEmpty(user_id, query, ydl) ==
    LET videos == SearchVideos(query, 8, ydl)
        payload == [search_results |-> videos, query |-> query]
    IN
    /\ user_sessions' = SessionPut(user_sessions, user_id, payload)
    /\ last' = [Blank("handle_search", user_id) EXCEPT
                    !.text = query, !.ydl = ydl.kind, !.found = videos,
                    !.replaced = Replaced(user_id, payload),
                    !.shown = IF videos = << >> THEN "no_results" ELSE "results",
                    !.keyboard = IF videos = << >> THEN << >>
                                 ELSE SearchKeyboard(videos, query)]
    /\ UNCHANGED <<downloads, promos, delete_tasks, temp_dir, config>>

\* handle_search(update, query)
HandleSearch(user_id, query, ydl) ==
    LET videos == SearchVideos(query, 8, ydl)
        payload == [search_results |-> videos, query |-> query]
    IN
    IF videos = << >>
    THEN /\ last' = [Blank("handle_search", user_id) EXCEPT
                        !.text = query, !.ydl = ydl.kind,
                        !.shown = "no_results"]
         /\ UNCHANGED <<user_sessions, downloads, promos, delete_tasks, temp_dir, config>>
    ELSE /\ user_sessions' = SessionPut(user_sessions, user_id, payload)
         /\ last' = [Blank("handle_search", user_id) EXCEPT
                        !.text = query, !.ydl = ydl.kind, !.found = videos,
                        !.replaced = Replaced(user_id, payload),
                        !.shown = "results",
                        !.keyboard = SearchKeyboard(videos, query)]
         /\ UNCHANGED <<downloads, promos, delete_tasks, temp_dir, config>>

\* handle_lyrics_to_download(update, context, song_info)
HandleLyricsToDownload(user_id, song_info, ydl) ==
    LET videos == SearchVideos(song_info, 3, ydl)
        payload == [search_results |-> videos, query |-> song_info]
    IN
    IF videos = << >>
    THEN /\ last' = [Blank("handle_lyrics_to_download", user_id) EXCEPT
                        !.text = song_info, !.ydl = ydl.kind,
                        !.shown = "no_results"]
         /\ UNCHANGED <<user_sessions, downloads, promos, delete_tasks, temp_dir, config>>
    ELSE /\ user_sessions' = SessionPut(user_sessions, user_id, payload)
         /\ last' = [Blank("handle_lyrics_to_download", user_id) EXCEPT
                        !.text = song_info, !.ydl = ydl.kind, !.found = videos,
                        !.replaced = Replaced(user_id, payload),
                        !.shown = "results",
                        !.keyboard = LyricsKeyboard(videos, song_info)]
         /\ UNCHANGED <<downloads, promos, delete_tasks, temp_dir, config>>

\* handle_youtube_url(update, context, url)
HandleYoutubeUrl(user_id, url, ydl) ==
    LET video_info == GetVideoInfo(url, ydl)
        payload == [url_video |-> video_info, original_url |-> url]
    IN
    IF video_info = PyNone
    THEN /\ last' = [Blank("handle_youtube_url", user_id) EXCEPT
                        !.text = url, !.ydl = ydl.kind,
                        !.shown = "url_error"]
         /\ UNCHANGED <<user_sessions, downloads, promos, delete_tasks, temp_dir, config>>
    ELSE IF video_info.title = NoneStr \/ video_info.channel = NoneStr
    \* video_info['title'][:80] or escape_markdown(video_info['channel'])
    \* raises inside the handler's try, before the session is written
    THEN /\ last' = [Blank("handle_youtube_url", user_id) EXCEPT
                        !.text = url, !.ydl = ydl.kind, !.found = << video_info >>,
                        !.shown = "url_exception"]
         /\ UNCHANGED <<user_sessions, downloads, promos, delete_tasks, temp_dir, config>>
    ELSE /\ user_sessions' = SessionPut(user_sessions, user_id, payload)
         /\ last' = [Blank("handle_youtube_url", user_id) EXCEPT
                        !.text = url, !.ydl = ydl.kind, !.found = << video_info >>,
                        !.replaced = Replaced(user_id, payload),
                        !.shown = "confirm",
                        !.keyboard = UrlKeyboard(video_info)]
         /\ UNCHANGED <<downloads, promos, delete_tasks, temp_dir, config>>

\* `if result_index >= len(videos)`: the only bounds check of a selection
IndexRejected(result_index, videos) == result_index >= Len(videos)

\* Database.get_current_promo: the latest row by created_at.  SQLite's sort
\* is stable in the row order here, so among equal times the first wins.
GetCurrentPromo(rows) ==
    IF rows = << >> THEN PyNone
    ELSE LET best == CHOOSE i \in 1..Len(rows) :
                        /\ \A j \in 1..Len(rows) : rows[j].created_at <= rows[i].created_at
                        /\ \A j \in 1..(i - 1) : rows[j].created_at < rows[i].created_at
         IN rows[best]

\* the two messages send_promotional_content sends
SeparatorMessage == [kind |-> "text", photo |-> "", caption |-> "separator"]
PhotoMessage(promo) == [kind |-> "photo", photo |-> promo.file_id, caption |-> promo.caption]

\* the path download_audio / download_video write to: outtmpl is
\* '%(title)s.%(ext)s' in the one temp directory, whoever asks; ext is the
\* extension of the format yt-dlp chose
TempFileName(title, ext) == << title, ext >>

\* None where a path is expected
NoFile == << >>

\* the extensions of a download by yt-dlp that returns info: `prepared`
\* is the one of ydl.prepare_filename(info), `written` the one of the file
\* in the directory.  For audio the format string is 'bestaudio[ext=m4a]/
\* bestaudio/best[ext=mp4]/best': an m4a, or for instance an mp4; the last
\* audio answers are a webm, and a file written under another extension
\* than prepare_filename names.  For video it is 'best[height<=720][ext=mp4]/
\* best[ext=mp4]/best': an mp4, or for instance a flv.
YdlFormats(format) ==
    IF format = "mp3"
    THEN { [prepared |-> "m4a", written |-> "m4a"],
           [prepared |-> "mp4", written |-> "mp4"],
           [prepared |-> "webm", written |-> "webm"],
           [prepared |-> "opus", written |-> "webm"] }
    ELSE { [prepared |-> "mp4", written |-> "mp4"],
           [prepared |-> "flv", written |-> "flv"] }

\* the first choice of each format string
ShortYdlFormats(format) ==
    IF format = "mp3"
    THEN { [prepared |-> "m4a", written |-> "m4a"] }
    ELSE { [prepared |-> "mp4", written |-> "mp4"] }

\* a download that raised or returned no info wrote nothing
NoYdlFormat == [prepared |-> "", written |-> ""]

\* what the collaborators of a fetch may do: an outcome of FetchOutcomes
\* and the extensions yt-dlp chose, here the first choice of the format
\* string
FetchInputs(format) ==
    ({"fetch_raises", "no_file"} \X { NoYdlFormat })
    \cup ((FetchOutcomes \ {"fetch_raises", "no_file"}) \X ShortYdlFormats(format))

\* every choice of the format string, with an upload that fails and leaves
\* the file, or succeeds
FormatInputs(format) == {"send_raises", "sent"} \X YdlFormats(format)

\* the fetch fails, or all goes well with the first choice of the format
\* string
ShortFetchInputs(format) ==
    ({"fetch_raises"} \X { NoYdlFormat })
    \cup ({"sent"} \X ShortYdlFormats(format))

\* the download of `video` by yt-dlp with the extensions `ydl_format`:
\*   title     info['title']
\*   filename  ydl.prepare_filename(info)
\*   file      the file it wrote into the directory
YdlDownload(video, ydl_format) ==
    [title |-> video.title,
     filename |-> TempFileName(video.title, ydl_format.prepared),
     file |-> TempFileName(video.title, ydl_format.written)]

\* the first path of `candidates` that is in the directory, NoFile for none
RECURSIVE FirstExisting(_, _)
FirstExisting(candidates, dir) ==
    IF candidates = << >> THEN NoFile
    ELSE IF Head(candidates) \in dir THEN Head(candidates)
    ELSE FirstExisting(Tail(candidates), dir)

\* what download_audio returns once extract_info returned info: the path
\* prepare_filename names when it exists, else the first of its base name
\* with .m4a, .mp4, .webm, .mp3 that exists, else None
DownloadAudio(dir, filename) ==
    IF filename \in dir THEN filename
    ELSE FirstExisting(<< TempFileName(filename[1], "m4a"), TempFileName(filename[1], "mp4"),
                          TempFileName(filename[1], "webm"), TempFileName(filename[1], "mp3") >>,
                       dir)

\* what download_video may return once extract_info returned info: the
\* first of '{title}.mp4', '.webm', '.mkv' that exists; else a video file
\* of the directory, the first os.listdir names, whatever its title; else
\* None
DownloadVideo(dir, title) ==
    LET named == FirstExisting(<< TempFileName(title, "mp4"), TempFileName(title, "webm"),
                                  TempFileName(title, "mkv") >>, dir)
        listed == { f \in dir : f[2] \in {"mp4", "webm", "mkv"} }
    IN IF named # NoFile THEN { named }
       ELSE IF listed # {} THEN listed
       ELSE { NoFile }

\* the directory when download_audio / download_video returns
DirAfterFetch(outcome, dl) ==
    IF outcome \in {"fetch_raises", "no_file"} THEN temp_dir ELSE temp_dir \cup { dl.file }

\* the paths download_audio / download_video may return
FetchedFiles(format, outcome, dl) ==
    IF outcome \in {"fetch_raises", "no_file"} THEN { NoFile }
    ELSE IF format = "mp3"
    THEN { DownloadAudio(DirAfterFetch(outcome, dl), dl.filename) }
    ELSE DownloadVideo(DirAfterFetch(outcome, dl), dl.title)

\* the record of a download that got as far as its fetch
Started(handler, user_id, data, video, video_url, format, outcome, file) ==
    [Blank(handler, user_id) EXCEPT
        !.data = data, !.resolved = video,
        !.fetch = [url |-> video_url, format |-> format],
        !.outcome = IF file = NoFile /\ outcome # "fetch_raises" THEN "no_file" ELSE outcome,
        !.file = file]

\* a promo step without its try / except: an error leaves it
PromoStepPropagates(outcome) ==
    IF outcome = "promo_fetch_raises"
    THEN [promo |-> "error", messages |-> << >>, raised |-> TRUE]
    ELSE IF GetCurrentPromo(promos) = PyNone
    THEN [promo |-> "none", messages |-> << >>, raised |-> FALSE]
    ELSE IF outcome = "promo_raises"
    THEN [promo |-> "error", messages |-> << SeparatorMessage >>, raised |-> TRUE]
    ELSE [promo |-> "sent",
          messages |-> << SeparatorMessage, PhotoMessage(GetCurrentPromo(promos)) >>,
          raised |-> FALSE]

\* send_promotional_content: the promo is read, then a separator line and
\* the promo photo are sent; nothing is sent without a promo.  Every error
\* is caught and logged inside, so `raised` is never set.
PromoStep(outcome) ==
    IF outcome = "promo_fetch_raises"
    THEN [promo |-> "swallowed_error", messages |-> << >>, raised |-> FALSE]
    ELSE IF GetCurrentPromo(promos) = PyNone
    THEN [promo |-> "none", messages |-> << >>, raised |-> FALSE]
    ELSE IF outcome = "promo_raises"
    THEN [promo |-> "swallowed_error", messages |-> << SeparatorMessage >>, raised |-> FALSE]
    ELSE [promo |-> "sent",
          messages |-> << SeparatorMessage, PhotoMessage(GetCurrentPromo(promos)) >>,
          raised |-> FALSE]

\* a download that drops the user's entry once the file is delivered
ProcessDownloadConsumes(handler, user_id, data, video, video_url, format, outcome, dl) ==
    \E file \in FetchedFiles(format, outcome, dl) :
    LET started == Started(handler, user_id, data, video, video_url, format, outcome, file)
        dir == DirAfterFetch(outcome, dl)
        promo == PromoStep(outcome)
    IN
    /\ IF file = NoFile \/ video.channel = NoneStr \/ outcome = "send_raises"
          \/ format = "mp4"
       THEN /\ last' = [started EXCEPT !.shown = "download_failed"]
            /\ temp_dir' = dir
            /\ UNCHANGED <<user_sessions, downloads, promos, delete_tasks, config>>
       ELSE /\ Len(downloads) < MaxDownloads
            /\ downloads' = Append(downloads, [user_id |-> user_id,
                                               song_title |-> video.title,
                                               format |-> format])
            /\ delete_tasks' = delete_tasks + 1
            /\ temp_dir' = dir \ { file }
            /\ user_sessions' = [u \in DOMAIN user_sessions \ {user_id} |-> user_sessions[u]]
            /\ last' = [started EXCEPT !.shown = "download_complete",
                                       !.delivered = TRUE, !.temp_file = "removed",
                                       !.promo = promo.promo,
                                       !.promo_messages = promo.messages]
            /\ UNCHANGED <<promos, config>>
    /\ Cardinality(temp_dir') <= MaxTempFiles

\* a download that records the request before it knows the fetch succeeded
ProcessDownloadRecordsFirst(handler, user_id, data, video, video_url, format, outcome, dl) ==
    \E file \in FetchedFiles(format, outcome, dl) :
    LET started == Started(handler, user_id, data, video, video_url, format, outcome, file)
        dir == DirAfterFetch(outcome, dl)
        promo == PromoStep(outcome)
        record == [user_id |-> user_id, song_title |-> video.title, format |-> format]
    IN
    /\ Len(downloads) < MaxDownloads
    /\ downloads' = Append(downloads, record)
    /\ IF file = NoFile \/ video.channel = NoneStr \/ outcome = "send_raises"
          \/ format = "mp4"
       THEN /\ last' = [started EXCEPT !.shown = "download_failed"]
            /\ temp_dir' = dir
            /\ UNCHANGED <<user_sessions, promos, delete_tasks, config>>
       ELSE /\ delete_tasks' = delete_tasks + 1
            /\ temp_dir' = dir \ { file }
            /\ last' = [started EXCEPT !.shown = "download_complete",
                                       !.delivered = TRUE, !.temp_file = "removed",
                                       !.promo = promo.promo,
                                       !.promo_messages = promo.messages]
            /\ UNCHANGED <<user_sessions, promos, config>>
    /\ Cardinality(temp_dir') <= MaxTempFiles

\* process_mp3_download / process_mp4_download, called inside the handler's
\* try: the fetch, the upload, the download record, the removal of the
\* fetched file, the promo and the task that deletes the status message
\* later.  Whatever raises inside is re-raised into the handler's `except`,
\* which shows "Download failed"; nothing after the raising statement runs.
\*   - no file: `raise Exception("Failed to download ...")`
\*   - a video whose channel is None: escape_markdown(video['channel']),
\*     called for the caption after the fetch, raises AttributeError; the
\*     fetched file stays where it is and nothing is sent
\*   - send_audio / send_video raises: the fetched file stays where it is
\*   - mp4: `with open(video_file, 'rb') as video` rebinds `video`, so
\*     `video['title']` in the add_download call raises TypeError after the
\*     file was delivered: no record, no removal, no promo, no task
\* The file sent and removed is the path the fetch returned, which another
\* request may have left in the directory.
ProcessDownload(handler, user_id, data, video, video_url, format, outcome, dl) ==
    \E file \in FetchedFiles(format, outcome, dl) :
    LET started == Started(handler, user_id, data, video, video_url, format, outcome, file)
        dir == DirAfterFetch(outcome, dl)
        promo == PromoStep(outcome)
        record == [user_id |-> user_id, song_title |-> video.title, format |-> format]
    IN
    /\ IF file = NoFile
       THEN /\ last' = [started EXCEPT !.shown = "download_failed"]
            /\ temp_dir' = dir
            /\ UNCHANGED <<user_sessions, downloads, promos, delete_tasks, config>>
       ELSE IF video.channel = NoneStr \/ outcome = "send_raises"
       THEN /\ last' = [started EXCEPT !.shown = "download_failed", !.temp_file = "left"]
            /\ temp_dir' = dir
            /\ UNCHANGED <<user_sessions, downloads, promos, delete_tasks, config>>
       ELSE IF format = "mp4"
       THEN /\ last' = [started EXCEPT !.shown = "download_failed", !.delivered = TRUE,
                                       !.temp_file = "left"]
            /\ temp_dir' = dir
            /\ UNCHANGED <<user_sessions, downloads, promos, delete_tasks, config>>
       ELSE IF outcome \in {"remove_raises", "edit_raises"}
       \* the error is raised again by the except of process_mp3_download
       THEN /\ Len(downloads) < MaxDownloads
            /\ downloads' = Append(downloads, record)
            /\ temp_dir' = IF outcome = "remove_raises" THEN dir ELSE dir \ { file }
            /\ last' = [started EXCEPT !.shown = "download_failed", !.delivered = TRUE,
                                       !.temp_file = IF outcome = "remove_raises"
                                                     THEN "left" ELSE "removed"]
            /\ UNCHANGED <<user_sessions, promos, delete_tasks, config>>
       ELSE IF promo.raised
       THEN /\ Len(downloads) < MaxDownloads
            /\ downloads' = Append(downloads, record)
            /\ temp_dir' = dir \ { file }
            /\ last' = [started EXCEPT !.shown = "download_failed", !.delivered = TRUE,
                                       !.temp_file = "removed",
                                       !.promo = promo.promo,
                                       !.promo_messages = promo.messages]
            /\ UNCHANGED <<user_sessions, promos, delete_tasks, config>>
       ELSE /\ Len(downloads) < MaxDownloads
            /\ downloads' = Append(downloads, record)
            /\ delete_tasks' = delete_tasks + 1
            /\ temp_dir' = dir \ { file }
            /\ last' = [started EXCEPT !.shown = "download_complete", !.delivered = TRUE,
                                       !.temp_file = "removed",
                                       !.promo = promo.promo,
                                       !.promo_messages = promo.messages]
            /\ UNCHANGED <<user_sessions, promos, config>>
    /\ Cardinality(temp_dir') <= MaxTempFiles

\* an ending that leaves an empty candidate list for a user without an entry
EndWithoutFetchCreatesEntry(handler, user_id, data, shown, raised) ==
    /\ last' = [Blank(handler, user_id) EXCEPT
                    !.data = data, !.shown = shown, !.raised = raised]
    /\ user_sessions' =
            IF user_id \in DOMAIN user_sessions THEN user_sessions
            ELSE SessionPut(user_sessions, user_id,
                            [search_results |-> << >>, query |-> << >>])
    /\ UNCHANGED <<downloads, promos, delete_tasks, temp_dir, config>>

\* a handler that ends without a fetch: a message to the user, or an error
\* that leaves the handler and reaches error_handler
EndWithoutFetch(handler, user_id, data, shown, raised) ==
    /\ last' = [Blank(handler, user_id) EXCEPT
                    !.data = data, !.shown = shown, !.raised = raised]
    /\ UNCHANGED <<user_sessions, downloads, promos, delete_tasks, temp_dir, config>>

\* handle_mp3_download / handle_mp4_download: data is
\* <<"download_mp3" | "download_mp4", video_id, result_index>>
HandleListDownload(handler, format, user_id, data, input) ==
    LET result_index == data[3] IN
    IF user_id \notin DOMAIN user_sessions
    THEN EndWithoutFetch(handler, user_id, data, "session_expired_search_again", "none")
    ELSE IF "search_results" \notin DOMAIN user_sessions[user_id]
    THEN EndWithoutFetch(handler, user_id, data, "error_handler", "KeyError")
    ELSE LET videos == user_sessions[user_id]["search_results"] IN
         IF IndexRejected(result_index, videos)
         THEN EndWithoutFetch(handler, user_id, data, "invalid_selection", "none")
         ELSE IF result_index < 0 - Len(videos)
         THEN EndWithoutFetch(handler, user_id, data, "error_handler", "IndexError")
         ELSE LET video == PyIndex(videos, result_index) IN
              ProcessDownload(handler, user_id, data, video, video["url"],
                              format, input[1], YdlDownload(video, input[2]))

HandleMp3Download(user_id, data, input) ==
    HandleListDownload("handle_mp3_download", "mp3", user_id, data, input)

HandleMp4Download(user_id, data, input) ==
    HandleListDownload("handle_mp4_download", "mp4", user_id, data, input)

\* handle_url_mp3_download / handle_url_mp4_download: data is
\* <<"url_download_mp3" | "url_download_mp4", video_id>>
HandleUrlDownload(handler, format, user_id, data, input) ==
    IF user_id \notin DOMAIN user_sessions
    THEN EndWithoutFetch(handler, user_id, data, "session_expired_send_url_again", "none")
    ELSE IF "url_video" \notin DOMAIN user_sessions[user_id]
    THEN EndWithoutFetch(handler, user_id, data, "error_handler", "KeyError")
    ELSE ProcessDownload(handler, user_id, data,
                         user_sessions[user_id]["url_video"],
                         user_sessions[user_id]["original_url"],
                         format, input[1],
                         YdlDownload(user_sessions[user_id]["url_video"], input[2]))

HandleUrlMp3Download(user_id, data, input) ==
    HandleUrlDownload("handle_url_mp3_download", "mp3", user_id, data, input)

HandleUrlMp4Download(user_id, data, input) ==
    HandleUrlDownload("handle_url_mp4_download", "mp4", user_id, data, input)

\* auto_delete_message, run by the task process_*_download created: the
\* status message is deleted, or the error is logged
AutoDeleteMessage(deleted) ==
    /\ delete_tasks > 0
    /\ delete_tasks' = delete_tasks - 1
    /\ last' = [Blank("auto_delete_message", 0) EXCEPT
                    !.shown = IF deleted THEN "status_deleted" ELSE "none"]
    /\ UNCHANGED <<user_sessions, downloads, promos, temp_dir, config>>

(***************************************************************************)
(* The access gate and the handlers that run() registers                   *)
(***************************************************************************)
\* is_admin: `user_id in self.admin_user_ids`
IsAdmin(user_id) == \E i \in 1..Len(admin_user_ids) : admin_user_ids[i] = user_id

\* what get_chat_member may do: raise, or report a status
MemberOutcomes ==
    {"raises", "member", "administrator", "creator", "restricted", "left", "kicked"}

\* a membership check that refuses when get_chat_member raises
CheckChannelMembershipFailsClosed(user_id, member) ==
    IF ~TruthyText(forced_channel)
    THEN TRUE
    ELSE member \in {"member", "administrator", "creator"}

\* check_channel_membership(user_id, context), given what get_chat_member does
CheckChannelMembership(user_id, member) ==
    IF ~TruthyText(forced_channel)
    THEN TRUE
    ELSE IF member = "raises"
    THEN TRUE
    ELSE member \in {"member", "administrator", "creator"}

\* a gate that sends admins through the membership check as well
GateRunNoAdminBypass(user_id, member) ==
    [user |-> user_id,
     admin |-> IsAdmin(user_id),
     channel |-> forced_channel,
     member |-> IF ~TruthyText(forced_channel) THEN "not_asked" ELSE member,
     allowed |-> CheckChannelMembership(user_id, member)]

\* `if not await self.is_admin(user_id): if not await
\* self.check_channel_membership(user_id, context): ... return`, as the record
\* of what the gate saw; get_chat_member is asked only for a non-admin while
\* a forced channel is set
GateRun(user_id, member) ==
    [user |-> user_id,
     admin |-> IsAdmin(user_id),
     channel |-> forced_channel,
     member |-> IF IsAdmin(user_id) \/ ~TruthyText(forced_channel)
                THEN "not_asked" ELSE member,
     allowed |-> IF IsAdmin(user_id) THEN TRUE
                 ELSE CheckChannelMembership(user_id, member)]

\* what the gate would have seen in a handler that has none: no check is
\* made and nothing refuses; member is what get_chat_member would report
NoGateRun(user_id, member) ==
    [user |-> user_id,
     admin |-> IsAdmin(user_id),
     channel |-> forced_channel,
     member |-> member,
     allowed |-> TRUE]

\* send_channel_join_message and the handler's return
Refuse(handler, user_id) ==
    /\ last' = [Blank(handler, user_id) EXCEPT
                    !.shown = IF TruthyText(forced_channel) THEN "join_channel" ELSE "none"]
    /\ UNCHANGED <<user_sessions, downloads, promos, delete_tasks, temp_dir, config>>

\* a handler that only answers
Reply(handler, user_id, shown) ==
    /\ last' = [Blank(handler, user_id) EXCEPT !.shown = shown]
    /\ UNCHANGED <<user_sessions, downloads, promos, delete_tasks, temp_dir, config>>

\* the patterns is_youtube_url looks for
youtube_patterns ==
    { <<"y", "o", "u", "t", "u", "b", "e", ".", "c", "o", "m", "/", "w", "a",
        "t", "c", "h">>,
      <<"y", "o", "u", "t", "u", ".", "b", "e", "/">>,
      <<"y", "o", "u", "t", "u", "b", "e", ".", "c", "o", "m", "/", "v", "/">>,
      <<"y", "o", "u", "t", "u", "b", "e", ".", "c", "o", "m", "/", "e", "m",
        "b", "e", "d", "/">>,
      <<"m", ".", "y", "o", "u", "t", "u", "b", "e", ".", "c", "o", "m", "/",
        "w", "a", "t", "c", "h">> }

\* is_youtube_url(text): some pattern occurs in the lowered text
IsYoutubeUrl(text) ==
    LET text_lower == Lower(text)
    IN  \E pattern \in youtube_patterns : Contains(pattern, text_lower)

\* handle_text_message(update, context)
HandleTextMessage(user_id, text, member, ydl) ==
    /\ gate' = GateRun(user_id, member)
    /\ IF ~GateRun(user_id, member).allowed
       THEN Refuse("handle_text_message", user_id)
       ELSE LET message_text == Strip(text)
            IN  IF StartsWith(message_text, <<"/">>)
                THEN Reply("handle_text_message", user_id, "none")
                ELSE IF IsYoutubeUrl(message_text)
                THEN HandleYoutubeUrl(user_id, message_text, ydl)
                ELSE HandleSearch(user_id, message_text, ydl)

\* search_command(update, context): args is context.args joined by ' '
SearchCommand(user_id, args, member, ydl) ==
    /\ gate' = GateRun(user_id, member)
    /\ IF ~GateRun(user_id, member).allowed
       THEN Refuse("search_command", user_id)
       ELSE IF args = << >>
       THEN Reply("search_command", user_id, "search_usage")
       ELSE HandleSearch(user_id, args, ydl)

\* handle_lyrics_search(update, query), given what search_lyrics returns:
\* None, or the song Genius found.  The first button carries the title and
\* the artist of that song, joined by a blank.
HandleLyricsSearch(user_id, query, lyrics_info) ==
    /\ last' = [Blank("handle_lyrics_search", user_id) EXCEPT
                    !.text = query,
                    !.shown = IF TruthyDict(lyrics_info) THEN "lyrics" ELSE "no_lyrics",
                    !.keyboard =
                        IF TruthyDict(lyrics_info)
                        THEN << <<"lyrics_download",
                                  lyrics_info["title"] \o <<" ">> \o lyrics_info["artist"]>>,
                                <<"lyrics_search_again">> >>
                        ELSE << >>]
    /\ UNCHANGED <<user_sessions, downloads, promos, delete_tasks, temp_dir, config>>

\* lyrics_command(update, context)
LyricsCommand(user_id, args, member, lyrics_info) ==
    /\ gate' = GateRun(user_id, member)
    /\ IF ~GateRun(user_id, member).allowed
       THEN Refuse("lyrics_command", user_id)
       ELSE IF args = << >>
       THEN Reply("lyrics_command", user_id, "lyrics_usage")
       ELSE HandleLyricsSearch(user_id, args, lyrics_info)

\* the callback data of the music menu
MusicMenuData ==
    {"music_youtube", "music_ytmusic", "music_lyrics", "music_top", "music_downloads",
     "music_back", "music_mainmenu"}

\* button_callback(update, context): the only handler registered for
\* callback queries.  It answers the query, edits the message when the
\* whole data is one of the music menu and returns; for every other data
\* the function ends without calling anything.
ButtonCallback(user_id, data) ==
    /\ last' = [Blank("button_callback", user_id) EXCEPT
                    !.data = data,
                    !.shown = IF \E d \in MusicMenuData : data = << d >>
                              THEN data[1] ELSE "none"]
    /\ UNCHANGED <<user_sessions, downloads, promos, delete_tasks, temp_dir, config, gate>>

\* setchannel_command(update, context): args is context.args
SetChannelCommand(user_id, args) ==
    IF ~IsAdmin(user_id)
    THEN /\ Reply("setchannel_command", user_id, "no_permission")
         /\ UNCHANGED gate
    ELSE IF args = << >>
    THEN /\ Reply("setchannel_command", user_id, "setchannel_usage")
         /\ UNCHANGED gate
    ELSE /\ forced_channel' = (IF StartsWith(args[1], <<"@">>)
                               THEN args[1] ELSE <<"@">> \o args[1])
         /\ last' = [Blank("setchannel_command", user_id) EXCEPT !.shown = "channel_set"]
         /\ UNCHANGED <<user_sessions, downloads, promos, delete_tasks, temp_dir,
                        admin_user_ids, users, in_flight, gate>>

\* clearchannel_command(update, context)
ClearChannelCommand(user_id) ==
    IF ~IsAdmin(user_id)
    THEN /\ Reply("clearchannel_command", user_id, "no_permission")
         /\ UNCHANGED gate
    ELSE /\ forced_channel' = NoneText
         /\ last' = [Blank("clearchannel_command", user_id) EXCEPT !.shown = "channel_removed"]
         /\ UNCHANGED <<user_sessions, downloads, promos, delete_tasks, temp_dir,
                        admin_user_ids, users, in_flight, gate>>

(***************************************************************************)
(* The promo table and the commands /addpromo and /delpromo                *)
(***************************************************************************)
\* ' '.join(words)
RECURSIVE JoinSpace(_)
JoinSpace(words) ==
    IF words = << >> THEN ""
    ELSE IF Len(words) = 1 THEN words[1]
    ELSE words[1] \o " " \o JoinSpace(Tail(words))

\* a replacement of the old promo that deletes nothing
DeleteNoPromos(rows) == rows

\* Database.delete_all_promos, as the table it leaves
DeleteAllPromos(rows) == << >>

\* Database.add_promo(promo_data)
AddPromo(rows, promo_data) ==
    Append(rows, [file_id |-> promo_data.file_id, caption |-> promo_data.caption,
                  created_at |-> promo_data.created_at])

\* Database.delete_latest_promo: the row get_current_promo would return is
\* deleted; the value returned and the table left.  No handler and no other
\* function of the program calls it; SpecDatabase does.
DeleteLatestPromo(rows) ==
    IF rows = << >> THEN [returned |-> FALSE, rows |-> rows]
    ELSE LET latest == CHOOSE i \in 1..Len(rows) :
                          /\ \A j \in 1..Len(rows) :
                                 rows[j].created_at <= rows[i].created_at
                          /\ \A j \in 1..(i - 1) :
                                 rows[j].created_at < rows[i].created_at
         IN [returned |-> TRUE,
             rows |-> SubSeq(rows, 1, latest - 1) \o SubSeq(rows, latest + 1, Len(rows))]

\* the buttons of the admin panel /addpromo shows when it replies to nothing
AdminPanelKeyboard(user_id) ==
    << <<"admin_users">>, <<"admin_stats">>, <<"admin_broadcast">>, <<"admin_list">>,
       <<"admin_setchannel">>, <<"admin_clearchannel">>, <<"admin_addpromo">>,
       <<"admin_delpromo">> >>
    \o (IF user_id = primary_admin_id
        THEN << <<"admin_addadmin">>, <<"admin_deladmin">> >>
        ELSE << >>)

\* addpromo_command(update, context): reply is the message replied to,
\* now is what datetime.now() reads
AddPromoCommand(user_id, reply, args, now) ==
    IF ~IsAdmin(user_id)
    THEN Reply("addpromo_command", user_id, "admin_only")
    ELSE IF reply = PyNone
    THEN /\ last' = [Blank("addpromo_command", user_id) EXCEPT
                         !.text = args,
                         !.shown = "admin_panel",
                         !.keyboard = AdminPanelKeyboard(user_id)]
         /\ UNCHANGED <<user_sessions, downloads, promos, delete_tasks, temp_dir, config>>
    ELSE IF reply.photo = << >>
    THEN /\ last' = [Blank("addpromo_command", user_id) EXCEPT
                         !.text = args, !.reply = reply, !.shown = "reply_to_photo_only"]
         /\ UNCHANGED <<user_sessions, downloads, promos, delete_tasks, temp_dir, config>>
    ELSE LET photo == reply.photo[Len(reply.photo)]
             caption == IF args # << >> THEN JoinSpace(args)
                        ELSE IF TruthyStr(reply.caption) THEN reply.caption ELSE ""
             promo_data == [file_id |-> photo, caption |-> caption, created_at |-> now]
         IN IF caption = ""
            THEN /\ last' = [Blank("addpromo_command", user_id) EXCEPT
                                 !.text = args, !.reply = reply, !.shown = "add_caption"]
                 /\ UNCHANGED <<user_sessions, downloads, promos, delete_tasks, temp_dir, config>>
            ELSE /\ promos' = AddPromo(DeleteAllPromos(promos), promo_data)
                 /\ last' = [Blank("addpromo_command", user_id) EXCEPT
                                 !.text = args, !.reply = reply, !.stored = promo_data,
                                 !.shown = "promo_added"]
                 /\ UNCHANGED <<user_sessions, downloads, delete_tasks, temp_dir, config>>

\* delpromo_command(update, context)
DelPromoCommand(user_id) ==
    IF ~IsAdmin(user_id)
    THEN Reply("delpromo_command", user_id, "admin_only")
    ELSE IF GetCurrentPromo(promos) = PyNone
    THEN Reply("delpromo_command", user_id, "no_promo_found")
    ELSE /\ promos' = DeleteAllPromos(promos)
         /\ last' = [Blank("delpromo_command", user_id) EXCEPT !.shown = "promo_removed"]
         /\ UNCHANGED <<user_sessions, downloads, delete_tasks, temp_dir, config>>

(***************************************************************************)
(* The users table, /start and /broadcast                                  *)
(***************************************************************************)
\* start_command(update, context): Database.add_user, then the welcome
StartCommand(user_id) ==
    /\ users' = users \cup {user_id}
    /\ last' = [Blank("start_command", user_id) EXCEPT !.shown = "welcome"]
    /\ UNCHANGED <<user_sessions, downloads, promos, delete_tasks, temp_dir,
                   admin_user_ids, forced_channel, in_flight>>

\* Database.get_all_users: the ids of the rows, in the order of the primary key
RECURSIVE GetAllUsers(_)
GetAllUsers(rows) ==
    IF rows = {} THEN << >>
    ELSE LET first == CHOOSE u \in rows : \A v \in rows : u <= v
         IN << first >> \o GetAllUsers(rows \ {first})

\* the status message is edited every StatusEvery attempts
StatusEvery == 50

\* the counters before the first recipient; raised is set when the loop is
\* left by an error
NoReport ==
    [total |-> 0, sent |-> 0, failed |-> 0, attempts |-> << >>, edits |-> 0, raised |-> FALSE]

\* where the status message of a broadcast fails: nowhere, at the
\* reply_text that creates it, at the progress edit after `count` attempts,
\* or at the edit to "Broadcast Complete"
NoStatusError == [at |-> "none", count |-> 0]
StatusErrors ==
    { NoStatusError, [at |-> "reply", count |-> 0],
      [at |-> "progress", count |-> StatusEvery], [at |-> "final", count |-> 0] }

\* `for user_id in users:` of broadcast_command; send_message raises for the
\* recipients in unreachable, which the try / except around it counts.  The
\* edit of the status message every StatusEvery attempts is outside that
\* try: when it raises, the error leaves the loop and the recipients that
\* remain are not attempted.
RECURSIVE BroadcastLoop(_, _, _, _)
BroadcastLoop(user_ids, unreachable, status, counters) ==
    IF user_ids = << >> THEN counters
    ELSE LET user_id == Head(user_ids)
             tried == [counters EXCEPT !.attempts = Append(@, user_id)]
             counted == IF user_id \in unreachable
                        THEN [tried EXCEPT !.failed = @ + 1]
                        ELSE [tried EXCEPT !.sent = @ + 1]
             done == counted.sent + counted.failed
         IN IF done % StatusEvery # 0
            THEN BroadcastLoop(Tail(user_ids), unreachable, status, counted)
            ELSE IF status.at = "progress" /\ status.count = done
            THEN [counted EXCEPT !.raised = TRUE]
            ELSE BroadcastLoop(Tail(user_ids), unreachable, status,
                               [counted EXCEPT !.edits = @ + 1])

\* broadcast_command(update, context).  Nothing in it catches an error of
\* the status message: it leaves the handler and reaches error_handler.
BroadcastCommand(user_id, args, unreachable, status) ==
    IF ~IsAdmin(user_id)
    THEN Reply("broadcast_command", user_id, "no_permission")
    ELSE IF args = << >>
    THEN Reply("broadcast_command", user_id, "broadcast_usage")
    ELSE IF status.at = "reply"
    THEN /\ last' = [Blank("broadcast_command", user_id) EXCEPT
                         !.text = args, !.shown = "error_handler",
                         !.raised = "TelegramError"]
         /\ UNCHANGED <<user_sessions, downloads, promos, delete_tasks, temp_dir, config>>
    ELSE LET user_ids == GetAllUsers(users)
             counters == BroadcastLoop(user_ids, unreachable, status,
                                       [NoReport EXCEPT !.total = Len(user_ids)])
             raised == counters.raised \/ status.at = "final"
         IN /\ last' = [Blank("broadcast_command", user_id) EXCEPT
                            !.text = args,
                            !.data = GetAllUsers(unreachable),
                            !.report = counters,
                            !.shown = IF raised THEN "error_handler"
                                      ELSE "broadcast_complete",
                            !.raised = IF raised THEN "TelegramError" ELSE "none"]
            /\ UNCHANGED <<user_sessions, downloads, promos, delete_tasks, temp_dir, config>>

(***************************************************************************)
(* The admin list: its construction from the environment, /addadmin and    *)
(* /deladmin.  A string is the sequence of its characters.                 *)
(***************************************************************************)
Digits == {"0", "1", "2", "3", "4", "5", "6", "7", "8", "9"}

DigitValue(c) ==
    CASE c = "0" -> 0 [] c = "1" -> 1 [] c = "2" -> 2 [] c = "3" -> 3 [] c = "4" -> 4
      [] c = "5" -> 5 [] c = "6" -> 6 [] c = "7" -> 7 [] c = "8" -> 8 [] c = "9" -> 9

\* the value of a string of digits
RECURSIVE DecimalValue(_)
DecimalValue(chars) ==
    IF chars = << >> THEN 0
    ELSE 10 * DecimalValue(SubSeq(chars, 1, Len(chars) - 1)) + DigitValue(chars[Len(chars)])

\* the digits int() accepts after the sign: decimal digits, with single
\* underscores between two of them
DigitGroups(chars) ==
    /\ chars # << >>
    /\ chars[1] \in Digits
    /\ chars[Len(chars)] \in Digits
    /\ \A k \in DOMAIN chars : chars[k] \in Digits \cup {"_"}
    /\ \A k \in 1..(Len(chars) - 1) : ~(chars[k] = "_" /\ chars[k + 1] = "_")

\* int(text): whitespace around the number, one sign and underscores
\* between digits are accepted, anything else raises ValueError
PyInt(text) ==
    LET chars == StripChars(text, IntWhitespace)
        signed == chars # << >> /\ chars[1] \in {"+", "-"}
        grouped == IF signed THEN Tail(chars) ELSE chars
        digits == SelectSeq(grouped, LAMBDA c : c # "_")
    IN IF ~DigitGroups(grouped)
       THEN [ok |-> FALSE, value |-> 0]
       ELSE [ok |-> TRUE,
             value |-> IF signed /\ chars[1] = "-"
                       THEN 0 - DecimalValue(digits) ELSE DecimalValue(digits)]

\* `[int(id.strip()) for id in admin_ids_str.split(',') if id.strip()]`,
\* parts being the result of the split.  The ValueError of int() for a part
\* that is no number leaves the comprehension: ok is FALSE and no list is
\* built.
RECURSIVE ParseAdminIds(_)
ParseAdminIds(parts) ==
    IF parts = << >> THEN [ok |-> TRUE, value |-> << >>]
    ELSE IF Strip(Head(parts)) = << >> THEN ParseAdminIds(Tail(parts))
    ELSE IF ~PyInt(Strip(Head(parts))).ok THEN [ok |-> FALSE, value |-> << >>]
    ELSE LET rest == ParseAdminIds(Tail(parts))
         IN  IF ~rest.ok THEN rest
             ELSE [ok |-> TRUE,
                   value |-> << PyInt(Strip(Head(parts))).value >> \o rest.value]

\* `x in ids`
InList(x, ids) == \E k \in DOMAIN ids : ids[k] = x

\* list.remove(x): the first occurrence goes
RECURSIVE ListRemove(_, _)
ListRemove(ids, x) ==
    IF ids = << >> THEN ids
    ELSE IF Head(ids) = x THEN Tail(ids)
    ELSE << Head(ids) >> \o ListRemove(Tail(ids), x)

\* the admin list __init__ builds from ADMIN_USER_IDS; with ok FALSE the
\* constructor raised ValueError and there is no bot
InitialAdminIds(parts) ==
    LET configured == ParseAdminIds(parts)
    IN IF ~configured.ok
       THEN configured
       ELSE IF InList(primary_admin_id, configured.value)
       THEN configured
       ELSE [ok |-> TRUE, value |-> Append(configured.value, primary_admin_id)]

\* a primary admin test that every admin passes
IsPrimaryAdminAnyAdmin(user_id) == IsAdmin(user_id)

\* is_primary_admin: `user_id == self.primary_admin_id`
IsPrimaryAdmin(user_id) == user_id = primary_admin_id

\* addadmin_command(update, context)
AddAdminCommand(user_id, args) ==
    IF ~IsPrimaryAdmin(user_id)
    THEN Reply("addadmin_command", user_id, "only_primary_admin")
    ELSE IF args = << >>
    THEN Reply("addadmin_command", user_id, "addadmin_usage")
    ELSE LET parsed == PyInt(args[1])
             new_admin_id == parsed.value
         IN IF ~parsed.ok
            THEN /\ last' = [Blank("addadmin_command", user_id) EXCEPT
                                 !.text = args, !.shown = "invalid_user_id"]
                 /\ UNCHANGED <<user_sessions, downloads, promos, delete_tasks, temp_dir, config>>
            ELSE IF InList(new_admin_id, admin_user_ids)
            THEN /\ last' = [Blank("addadmin_command", user_id) EXCEPT
                                 !.text = args, !.data = << new_admin_id >>,
                                 !.shown = "already_admin"]
                 /\ UNCHANGED <<user_sessions, downloads, promos, delete_tasks, temp_dir, config>>
            ELSE /\ admin_user_ids' = Append(admin_user_ids, new_admin_id)
                 /\ last' = [Blank("addadmin_command", user_id) EXCEPT
                                 !.text = args, !.data = << new_admin_id >>,
                                 !.shown = "admin_added"]
                 /\ UNCHANGED <<user_sessions, downloads, promos, delete_tasks, temp_dir,
                                forced_channel, users, in_flight>>

\* deladmin_command(update, context)
DelAdminCommand(user_id, args) ==
    IF ~IsPrimaryAdmin(user_id)
    THEN Reply("deladmin_command", user_id, "only_primary_admin")
    ELSE IF args = << >>
    THEN Reply("deladmin_command", user_id, "deladmin_usage")
    ELSE LET parsed == PyInt(args[1])
             admin_id == parsed.value
         IN IF ~parsed.ok
            THEN /\ last' = [Blank("deladmin_command", user_id) EXCEPT
                                 !.text = args, !.shown = "invalid_user_id"]
                 /\ UNCHANGED <<user_sessions, downloads, promos, delete_tasks, temp_dir, config>>
            ELSE IF admin_id = primary_admin_id
            THEN /\ last' = [Blank("deladmin_command", user_id) EXCEPT
                                 !.text = args, !.data = << admin_id >>,
                                 !.shown = "cannot_remove_primary"]
                 /\ UNCHANGED <<user_sessions, downloads, promos, delete_tasks, temp_dir, config>>
            ELSE IF ~InList(admin_id, admin_user_ids)
            THEN /\ last' = [Blank("deladmin_command", user_id) EXCEPT
                                 !.text = args, !.data = << admin_id >>,
                                 !.shown = "not_an_admin"]
                 /\ UNCHANGED <<user_sessions, downloads, promos, delete_tasks, temp_dir, config>>
            ELSE /\ admin_user_ids' = ListRemove(admin_user_ids, admin_id)
                 /\ last' = [Blank("deladmin_command", user_id) EXCEPT
                                 !.text = args, !.data = << admin_id >>,
                                 !.shown = "admin_removed"]
                 /\ UNCHANGED <<user_sessions, downloads, promos, delete_tasks, temp_dir,
                                forced_channel, users, in_flight>>

(***************************************************************************)
(* Spec: two users, every handler, short result lists.  Each action is one *)
(* handler method run on one update; the handlers of one Application run   *)
(* one after the other, only the task of auto_delete_message runs between  *)
(* them.                                                                   *)
(***************************************************************************)
Search ==
    /\ \E u \in Users, q \in ShortQueries, ydl \in ShortYdlOutcomes :
           HandleSearch(u, q, ydl)
    /\ UNCHANGED gate

LyricsToDownload ==
    /\ \E u \in Users, q \in ShortQueries, ydl \in ShortYdlOutcomes :
           HandleLyricsToDownload(u, q, ydl)
    /\ UNCHANGED gate

YoutubeUrl ==
    /\ \E u \in Users, url \in ShortUrls, ydl \in ShortDescribeOutcomes :
           HandleYoutubeUrl(u, url, ydl)
    /\ UNCHANGED gate

Mp3Download ==
    /\ \E u \in Users, id \in CallbackIds, i \in CallbackIndices(MaxResults) :
           (\E input \in ShortFetchInputs("mp3") :
               HandleMp3Download(u, <<"download_mp3", id, i>>, input))
    /\ UNCHANGED gate

Mp4Download ==
    /\ \E u \in Users, id \in CallbackIds, i \in CallbackIndices(MaxResults) :
           (\E input \in ShortFetchInputs("mp4") :
               HandleMp4Download(u, <<"download_mp4", id, i>>, input))
    /\ UNCHANGED gate

UrlMp3Download ==
    /\ \E u \in Users, id \in CallbackIds :
           (\E input \in ShortFetchInputs("mp3") :
               HandleUrlMp3Download(u, <<"url_download_mp3", id>>, input))
    /\ UNCHANGED gate

UrlMp4Download ==
    /\ \E u \in Users, id \in CallbackIds :
           (\E input \in ShortFetchInputs("mp4") :
               HandleUrlMp4Download(u, <<"url_download_mp4", id>>, input))
    /\ UNCHANGED gate

AutoDelete ==
    /\ \E deleted \in BOOLEAN : AutoDeleteMessage(deleted)
    /\ UNCHANGED gate

Next ==
    \/ Search
    \/ LyricsToDownload
    \/ YoutubeUrl
    \/ Mp3Download
    \/ Mp4Download
    \/ UrlMp3Download
    \/ UrlMp4Download
    \/ AutoDelete

Spec == Init /\ [][Next]_vars

(***************************************************************************)
(* SpecSearch: one user, every query, long result lists; the handlers that *)
(* write the session map                                                   *)
(***************************************************************************)
SearchLong ==
    /\ \E q \in Queries, ydl \in YdlOutcomes(MaxEntries) : HandleSearch(1, q, ydl)
    /\ UNCHANGED gate

LyricsToDownloadLong ==
    /\ \E q \in Queries, ydl \in YdlOutcomes(MaxEntries) : HandleLyricsToDownload(1, q, ydl)
    /\ UNCHANGED gate

YoutubeUrlLong ==
    /\ \E url \in Urls, ydl \in DescribeOutcomes : HandleYoutubeUrl(1, url, ydl)
    /\ UNCHANGED gate

NextSearch ==
    \/ SearchLong
    \/ LyricsToDownloadLong
    \/ YoutubeUrlLong

SpecSearch == Init /\ [][NextSearch]_vars

(***************************************************************************)
(* SpecAdmin: the admin commands on the promo table and the users table,   *)
(* sent by the admin and by two other users                                *)
(***************************************************************************)
MaxClock == 2

\* what datetime.now() may read; the clock of the host may be set back, so
\* a reading may lie before, at or after the created_at of a stored promo
ClockReadings == 0..MaxClock

AdminUsers == {1, 2, primary_admin_id}

\* the messages /addpromo is sent in reply to: none, a text, a photo
\* without and with a caption
Replies ==
    {PyNone} \cup [photo : { << >>, <<"small", "large">> }, caption : {NoneStr, "Sale"}]

PromoArgs == { << >>, <<"Buy">>, <<"Buy", "now">> }

Start ==
    /\ \E u \in AdminUsers : StartCommand(u)
    /\ UNCHANGED gate

AddPromoCmd ==
    /\ \E u \in AdminUsers, reply \in Replies, args \in PromoArgs, now \in ClockReadings :
           AddPromoCommand(u, reply, args, now)
    /\ UNCHANGED gate

DelPromoCmd ==
    /\ \E u \in AdminUsers : DelPromoCommand(u)
    /\ UNCHANGED gate

Broadcast ==
    /\ \E u \in AdminUsers, args \in { << >>, <<"Hello">> }, unreachable \in SUBSET AdminUsers,
          status \in StatusErrors :
           BroadcastCommand(u, args, unreachable, status)
    /\ UNCHANGED gate

NextAdmin ==
    \/ Start
    \/ AddPromoCmd
    \/ DelPromoCmd
    \/ Broadcast

SpecAdmin == Init /\ [][NextAdmin]_vars

(***************************************************************************)
(* SpecDeliver: one user, every outcome of fetch, delivery, promo and      *)
(* deferred deletion, with and without a stored promo                      *)
(***************************************************************************)
SearchOne ==
    /\ \E q \in ShortQueries, ydl \in ShortYdlOutcomes \cup { NoChannelListed } :
           HandleSearch(1, q, ydl)
    /\ UNCHANGED gate

YoutubeUrlOne ==
    /\ \E url \in ShortUrls, ydl \in ShortDescribeOutcomes : HandleYoutubeUrl(1, url, ydl)
    /\ UNCHANGED gate

Mp3DownloadOne ==
    /\ \E id \in CallbackIds, i \in CallbackIndices(MaxResults) :
           (\E input \in FetchInputs("mp3") :
               HandleMp3Download(1, <<"download_mp3", id, i>>, input))
    /\ UNCHANGED gate

Mp4DownloadOne ==
    /\ \E id \in CallbackIds, i \in CallbackIndices(MaxResults) :
           (\E input \in FetchInputs("mp4") :
               HandleMp4Download(1, <<"download_mp4", id, i>>, input))
    /\ UNCHANGED gate

UrlMp3DownloadOne ==
    /\ \E id \in CallbackIds : (\E input \in FetchInputs("mp3") :
               HandleUrlMp3Download(1, <<"url_download_mp3", id>>, input))
    /\ UNCHANGED gate

UrlMp4DownloadOne ==
    /\ \E id \in CallbackIds : (\E input \in FetchInputs("mp4") :
               HandleUrlMp4Download(1, <<"url_download_mp4", id>>, input))
    /\ UNCHANGED gate

\* the primary admin replaces the promo by a captioned photo, or deletes it
AddPromoOne ==
    /\ AddPromoCommand(primary_admin_id, [photo |-> <<"small", "large">>, caption |-> "Sale"],
                       << >>, 0)
    /\ UNCHANGED gate

DelPromoOne ==
    /\ DelPromoCommand(primary_admin_id)
    /\ UNCHANGED gate

NextDeliver ==
    \/ SearchOne
    \/ YoutubeUrlOne
    \/ Mp3DownloadOne
    \/ Mp4DownloadOne
    \/ UrlMp3DownloadOne
    \/ UrlMp4DownloadOne
    \/ AutoDelete
    \/ AddPromoOne
    \/ DelPromoOne

SpecDeliver == Init /\ [][NextDeliver]_vars

(***************************************************************************)
(* SpecFiles: one user, a list of two titles, every extension yt-dlp may   *)
(* choose; the files the requests leave in the temp directory              *)
(***************************************************************************)
\* a search that lists v8 'Song A' and v9 'Song B'
TwoTitles == [kind |-> "returns", value |-> [entries |-> Window(8, 2)]]

SearchTwoTitles ==
    /\ \E q \in ShortQueries : HandleSearch(1, q, TwoTitles)
    /\ UNCHANGED gate

Mp3DownloadFile ==
    /\ \E i \in 0..1, input \in FormatInputs("mp3") :
           HandleMp3Download(1, <<"download_mp3", Catalogue[8 + i].id, i>>, input)
    /\ UNCHANGED gate

Mp4DownloadFile ==
    /\ \E i \in 0..1, input \in FormatInputs("mp4") :
           HandleMp4Download(1, <<"download_mp4", Catalogue[8 + i].id, i>>, input)
    /\ UNCHANGED gate

NextFiles ==
    \/ SearchTwoTitles
    \/ Mp3DownloadFile
    \/ Mp4DownloadFile

SpecFiles == Init /\ [][NextFiles]_vars

(***************************************************************************)
(* SpecBroadcast: /broadcast to a users table long enough for the progress *)
(* edits of the status message                                             *)
(***************************************************************************)
MaxStoredUsers == 51

\* the users tables earlier runs may have left in the database file: the
\* users 1 .. n
StoredUsers == { 1..n : n \in (StatusEvery - 1)..MaxStoredUsers }

InitBroadcast ==
    /\ user_sessions = << >>
    /\ downloads = << >>
    /\ promos = << StoredPromo >>
    /\ delete_tasks = 0
    /\ temp_dir = {}
    /\ admin_user_ids = << primary_admin_id >>
    /\ forced_channel = NoneText
    /\ users \in StoredUsers
    /\ in_flight = {}
    /\ gate = NoGate
    /\ last = Blank("none", 0)

\* a user of the table, or a new one, sends /start
StartStored ==
    /\ \E u \in {1, MaxStoredUsers + 1} : StartCommand(u)
    /\ UNCHANGED gate

\* the recipients send_message raises for: some of the first, the one the
\* first progress edit follows, and the last
BroadcastStored ==
    /\ \E u \in {1, primary_admin_id}, args \in { << >>, <<"Hello">> },
          unreachable \in SUBSET {1, StatusEvery, MaxStoredUsers}, status \in StatusErrors :
           BroadcastCommand(u, args, unreachable, status)
    /\ UNCHANGED gate

NextBroadcast ==
    \/ StartStored
    \/ BroadcastStored

SpecBroadcast == InitBroadcast /\ [][NextBroadcast]_vars

(***************************************************************************)
(* SpecDatabase: the promo functions of class Database, called one after   *)
(* the other by whoever holds the object.  The bot itself calls add_promo  *)
(* only after delete_all_promos and never calls delete_latest_promo, so    *)
(* its own table never holds two rows.                                     *)
(***************************************************************************)
MaxPromos == 2

AddPromoCall ==
    /\ Len(promos) < MaxPromos
    /\ \E file_id \in {"photo2", "photo3"}, caption \in {"Sale", NoneStr},
          now \in ClockReadings :
           promos' = AddPromo(promos, [file_id |-> file_id, caption |-> caption,
                                       created_at |-> now])
    /\ last' = Blank("add_promo", 0)
    /\ UNCHANGED <<user_sessions, downloads, delete_tasks, temp_dir, config, gate>>

DeleteLatestPromoCall ==
    /\ promos' = DeleteLatestPromo(promos).rows
    /\ last' = [Blank("delete_latest_promo", 0) EXCEPT
                    !.shown = IF DeleteLatestPromo(promos).returned THEN "True" ELSE "False"]
    /\ UNCHANGED <<user_sessions, downloads, delete_tasks, temp_dir, config, gate>>

DeleteAllPromosCall ==
    /\ promos' = DeleteAllPromos(promos)
    /\ last' = Blank("delete_all_promos", 0)
    /\ UNCHANGED <<user_sessions, downloads, delete_tasks, temp_dir, config, gate>>

NextDatabase ==
    \/ AddPromoCall
    \/ DeleteLatestPromoCall
    \/ DeleteAllPromosCall

SpecDatabase == Init /\ [][NextDatabase]_vars

(***************************************************************************)
(* SpecBot: the updates of an admin and of another user, each handled by   *)
(* the handler run() registered for it                                     *)
(***************************************************************************)
BotUsers == {1, primary_admin_id}

\* what yt-dlp may do on a search in SpecBot: an error, or the entry v2
BotYdlOutcomes ==
    { [kind |-> "extract_raises", value |-> PyNone],
      [kind |-> "returns", value |-> [entries |-> Window(2, 1)]] }

\* the texts sent in SpecBot: a query, a link, a text that begins like a
\* command, the same with blanks around them, and a link in capitals after
\* a word
BotTexts ==
    ShortQueries \cup ShortUrls \cup
    { <<"/", "x">>,
      <<" ", "a", "b", "c">>,
      <<"a", "b", "c", " ">>,
      <<" ", "/", "x">>,
      <<"s", "e", "e", " ", "H", "T", "T", "P", "S", ":", "/", "/", "M", ".",
        "Y", "O", "U", "T", "U", "B", "E", ".", "C", "O", "M", "/", "w", "a",
        "t", "c", "h", "?", "v", "=", "v", "1">> }

\* what search_lyrics may return in SpecBot: nothing, or a song of Genius
LyricsOutcomes ==
    { PyNone,
      [title |-> <<"A", "b", "c">>, artist |-> <<"X", "y">>],
      [title |-> <<"a", "b", "c">>, artist |-> << >>] }

\* a callback data that only begins like one of the music menu
CraftedData == { <<"music_youtube", "extra">> }

\* the arguments given to /setchannel: none, a name without and with '@'
ChannelArgs == { << >>, << <<"c", "h", "a", "n">> >>, << <<"@", "c", "h", "a", "n">> >> }

TextMessage ==
    \E u \in BotUsers, text \in BotTexts, member \in MemberOutcomes :
        \/ /\ IsYoutubeUrl(Strip(text))
           /\ \E ydl \in ShortDescribeOutcomes : HandleTextMessage(u, text, member, ydl)
        \/ /\ ~IsYoutubeUrl(Strip(text))
           /\ \E ydl \in BotYdlOutcomes : HandleTextMessage(u, text, member, ydl)

SearchCmd ==
    \E u \in BotUsers, args \in ShortQueries \cup { << >> }, member \in MemberOutcomes,
       ydl \in BotYdlOutcomes :
        SearchCommand(u, args, member, ydl)

LyricsCmd ==
    \E u \in BotUsers, args \in ShortQueries \cup { << >> }, member \in MemberOutcomes,
       lyrics_info \in LyricsOutcomes :
        LyricsCommand(u, args, member, lyrics_info)

\* a user presses a button of the message the bot has just shown them, or a
\* button of the music menu
ButtonPress ==
    \/ \E k \in DOMAIN last.keyboard : ButtonCallback(last.user, last.keyboard[k])
    \/ \E u \in BotUsers, data \in { << d >> : d \in MusicMenuData } \cup CraftedData :
            ButtonCallback(u, data)

SetChannel == \E u \in BotUsers, args \in ChannelArgs : SetChannelCommand(u, args)

ClearChannel == \E u \in BotUsers : ClearChannelCommand(u)

NextBot ==
    \/ TextMessage
    \/ SearchCmd
    \/ LyricsCmd
    \/ ButtonPress
    \/ SetChannel
    \/ ClearChannel

SpecBot == Init /\ [][NextBot]_vars

(***************************************************************************)
(* SpecFlight: the requests in flight.  run() builds the Application       *)
(* without concurrent updates, so it takes the next update from its queue  *)
(* when the handler of the update before has returned; search_videos,      *)
(* get_video_info and download_audio call yt-dlp without an await, so      *)
(* nothing else runs on the event loop during such a call.                 *)
(***************************************************************************)
\* the Application hands the update of user_id to its handler
ProcessUpdate(user_id) ==
    /\ in_flight = {}
    /\ in_flight' = in_flight \cup {user_id}
    /\ last' = Blank("process_update", user_id)
    /\ UNCHANGED <<user_sessions, downloads, promos, delete_tasks, temp_dir,
                   admin_user_ids, forced_channel, users, gate>>

\* the handler of the update in flight returns
HandlerReturns(user_id) ==
    /\ user_id \in in_flight
    /\ last.handler # "process_update"
    /\ in_flight' = in_flight \ {user_id}
    /\ UNCHANGED <<user_sessions, downloads, promos, delete_tasks, temp_dir,
                   admin_user_ids, forced_channel, users, gate, last>>

Dispatch == \E u \in Users : ProcessUpdate(u)

SearchInFlight ==
    /\ last.handler = "process_update"
    /\ \E u \in in_flight, q \in ShortQueries, ydl \in ShortYdlOutcomes :
           HandleSearch(u, q, ydl)
    /\ UNCHANGED gate

YoutubeUrlInFlight ==
    /\ last.handler = "process_update"
    /\ \E u \in in_flight, url \in ShortUrls, ydl \in ShortDescribeOutcomes :
           HandleYoutubeUrl(u, url, ydl)
    /\ UNCHANGED gate

Mp3DownloadInFlight ==
    /\ last.handler = "process_update"
    /\ \E u \in in_flight, id \in CallbackIds, i \in CallbackIndices(MaxResults) :
           (\E input \in ShortFetchInputs("mp3") :
               HandleMp3Download(u, <<"download_mp3", id, i>>, input))
    /\ UNCHANGED gate

Returned == \E u \in Users : HandlerReturns(u)

NextFlight ==
    \/ Dispatch
    \/ SearchInFlight
    \/ YoutubeUrlInFlight
    \/ Mp3DownloadInFlight
    \/ Returned

SpecFlight == Init /\ [][NextFlight]_vars

(***************************************************************************)
(* SpecUsers: the users table next to the searches and downloads of users  *)
(* who did or did not send /start                                          *)
(***************************************************************************)
StartUser ==
    /\ \E u \in Users : StartCommand(u)
    /\ UNCHANGED gate

SearchUser ==
    /\ \E u \in Users, ydl \in BotYdlOutcomes : HandleSearch(u, <<"a">>, ydl)
    /\ UNCHANGED gate

Mp3DownloadUser ==
    /\ \E u \in Users, id \in CallbackIds :
           (\E input \in ShortFetchInputs("mp3") :
               HandleMp3Download(u, <<"download_mp3", id, 0>>, input))
    /\ UNCHANGED gate

NextUsers ==
    \/ StartUser
    \/ SearchUser
    \/ Mp3DownloadUser

SpecUsers == Init /\ [][NextUsers]_vars

(***************************************************************************)
(* SpecGate: the gated text handler next to the handlers of the download   *)
(* buttons, which read the session and call the collaborator               *)
(***************************************************************************)
TextMessageSearch ==
    \E u \in BotUsers, member \in MemberOutcomes, ydl \in BotYdlOutcomes :
        HandleTextMessage(u, <<"a">>, member, ydl)

Mp3DownloadPressed ==
    \E u \in BotUsers, member \in MemberOutcomes, id \in CallbackIds :
        /\ (\E input \in ShortFetchInputs("mp3") :
               HandleMp3Download(u, <<"download_mp3", id, 0>>, input))
        /\ gate' = NoGateRun(u, member)

LyricsToDownloadPressed ==
    \E u \in BotUsers, member \in MemberOutcomes, ydl \in BotYdlOutcomes :
        /\ HandleLyricsToDownload(u, <<"a">>, ydl)
        /\ gate' = NoGateRun(u, member)

NextGate ==
    \/ TextMessageSearch
    \/ Mp3DownloadPressed
    \/ LyricsToDownloadPressed
    \/ SetChannel
    \/ ClearChannel

SpecGate == Init /\ [][NextGate]_vars

(***************************************************************************)
(* SpecAdmins: every configured admin list, /addadmin and /deladmin sent   *)
(* by the primary admin and by two other users                             *)
(***************************************************************************)
MaxConfigured == 2

\* the parts of ADMIN_USER_IDS between its commas
ConfiguredParts == { <<"1">>, <<" ", "2">>, <<"7">>, << >>, <<"x">>, <<"0", "_", "1">> }

\* the values of ADMIN_USER_IDS split at its commas, unset counting as empty
ConfiguredLists ==
    UNION { [1..n -> ConfiguredParts] : n \in 0..MaxConfigured }

\* the argument of /addadmin and /deladmin: numbers, no numbers, and a
\* number after a vertical tab and after the separator U+001C
AdminArgs == { << >>, << <<"1">> >>, << <<"2">> >>, << <<"7">> >>, << <<"x">> >>,
               << <<"-", "1">> >>, << <<"0", "_", "2">> >>, << <<"1", "_">> >>,
               << <<"", "1">> >>, << <<"", "1">> >> }

InitAdmins ==
    /\ user_sessions = << >>
    /\ downloads = << >>
    /\ promos = << StoredPromo >>
    /\ delete_tasks = 0
    /\ temp_dir = {}
    /\ admin_user_ids \in { InitialAdminIds(parts).value :
                                parts \in { c \in ConfiguredLists : InitialAdminIds(c).ok } }
    /\ forced_channel = NoneText
    /\ users = {}
    /\ in_flight = {}
    /\ gate = NoGate
    /\ last = Blank("none", 0)

AddAdmin ==
    /\ \E u \in AdminUsers, args \in AdminArgs : AddAdminCommand(u, args)
    /\ UNCHANGED gate

DelAdmin ==
    /\ \E u \in AdminUsers, args \in AdminArgs : DelAdminCommand(u, args)
    /\ UNCHANGED gate

NextAdmins ==
    \/ AddAdmin
    \/ DelAdmin
    \/ DelPromoCmd

SpecAdmins == InitAdmins /\ [][NextAdmins]_vars

(***************************************************************************)
(* Properties                                                              *)
(***************************************************************************)
SubmitHandlers == {"handle_search", "handle_lyrics_to_download", "handle_youtube_url"}
ListHandlers == {"handle_mp3_download", "handle_mp4_download"}
UrlHandlers == {"handle_url_mp3_download", "handle_url_mp4_download"}
SelectionHandlers == ListHandlers \cup UrlHandlers
SessionExpired == {"session_expired_search_again", "session_expired_send_url_again"}

\* whether user u holds a candidate list / a resolved link
HasCandidateList(u) ==
    u \in DOMAIN user_sessions /\ "search_results" \in DOMAIN user_sessions[u]
HasResolvedTarget(u) ==
    u \in DOMAIN user_sessions /\ "url_video" \in DOMAIN user_sessions[u]

\* C1: the session map is last-write-wins per user.  Right after a search or
\* a link submission stored a payload for a user, the user's entry is exactly
\* that payload, whatever entry the user had before (no merge, no keeping of
\* the earlier one); and a list selection with index 0 that resolves a
\* candidate resolves the first item of the list the user holds now.
C1_LastWriteWins ==
    /\ last.shown = "results" =>
          /\ last.user \in DOMAIN user_sessions
          /\ user_sessions[last.user] = [search_results |-> last.found, query |-> last.text]
    /\ last.shown = "confirm" =>
          /\ last.user \in DOMAIN user_sessions
          /\ user_sessions[last.user] = [url_video |-> last.found[1], original_url |-> last.text]
    /\ (last.handler \in ListHandlers /\ last.resolved # PyNone /\ last.data[3] = 0) =>
          /\ HasCandidateList(last.user)
          /\ last.resolved = user_sessions[last.user]["search_results"][1]

\* a search has just overwritten a different entry of the same user
C1_Witness ==
    /\ last.shown = "results"
    /\ last.replaced = "other"
    /\ user_sessions[last.user]["search_results"] = last.found

\* C2: a selection callback, from a list or from a link confirmation, by a
\* user without a session entry shows the session-expired message, resolves
\* nothing, starts no fetch, raises nothing, appends no download record,
\* schedules nothing and leaves the session map as it was.
C2_NoEntryExpires ==
    [][ (last'.handler \in SelectionHandlers /\ last'.user \notin DOMAIN user_sessions) =>
            /\ last'.shown \in SessionExpired
            /\ last'.resolved = PyNone
            /\ last'.fetch = PyNone
            /\ last'.raised = "none"
            /\ downloads' = downloads
            /\ delete_tasks' = delete_tasks
            /\ user_sessions' = user_sessions ]_vars

\* a selection of a user without an entry, while another user has one
C2_Witness ==
    /\ last.handler \in SelectionHandlers
    /\ last.shown \in SessionExpired
    /\ last.user \notin DOMAIN user_sessions
    /\ DOMAIN user_sessions # {}

\* C3 as stated: a list selection whose index is >= the length of the stored
\* list, or negative, shows the invalid-selection message, resolves nothing
\* and starts no fetch.
C3_OutOfRangeRejected ==
    (/\ last.handler \in ListHandlers
     /\ HasCandidateList(last.user)
     /\ \/ last.data[3] >= Len(user_sessions[last.user]["search_results"])
        \/ last.data[3] < 0)
    => /\ last.shown = "invalid_selection"
       /\ last.resolved = PyNone
       /\ last.fetch = PyNone

\* C4 as stated: a list selection by a user whose entry is a resolved link
\* shows the invalid-selection message, raises nothing and starts no fetch.
C4_ResolvedTargetRejected ==
    (/\ last.handler \in ListHandlers
     /\ HasResolvedTarget(last.user))
    => /\ last.shown = "invalid_selection"
       /\ last.raised = "none"
       /\ last.fetch = PyNone

\* C5: no step removes a session entry; a user's entry appears or changes
\* only in a search or link submission of that same user; a selection, with
\* its fetch, delivery, download record and promo, and the deferred deletion
\* of the status message leave the session map untouched; and what a
\* selection resolved is what the map still holds at that position, so
\* the same selection resolves to it again.
C5_SelectionKeepsSessions ==
    [][ /\ DOMAIN user_sessions \subseteq DOMAIN user_sessions'
        /\ \A u \in DOMAIN user_sessions' :
              (u \notin DOMAIN user_sessions \/ user_sessions'[u] # user_sessions[u])
              => (last'.user = u /\ last'.handler \in SubmitHandlers)
        /\ last'.handler \in SelectionHandlers \cup {"auto_delete_message"}
              => user_sessions' = user_sessions
        /\ (last'.handler \in ListHandlers /\ last'.resolved # PyNone)
              => /\ last'.user \in DOMAIN user_sessions'
                 /\ last'.resolved =
                        PyIndex(user_sessions'[last'.user]["search_results"], last'.data[3])
        /\ (last'.handler \in UrlHandlers /\ last'.resolved # PyNone)
              => /\ last'.user \in DOMAIN user_sessions'
                 /\ last'.resolved = user_sessions'[last'.user]["url_video"] ]_vars

\* a file was delivered, recorded and followed by the promo, its status
\* message awaits deletion, and the user still holds the entry
C5_Witness ==
    /\ last.handler \in SelectionHandlers
    /\ last.shown = "download_complete"
    /\ last.promo = "sent"
    /\ delete_tasks > 0
    /\ downloads # << >>
    /\ last.user \in DOMAIN user_sessions

\* C6: a search, fresh or from a lyrics result, that finds nothing shows the
\* no-results message and leaves the session map exactly as it was.
C6_NoResultsKeepsSessions ==
    [][ (last'.handler \in {"handle_search", "handle_lyrics_to_download"}
         /\ last'.found = << >>)
        => /\ last'.shown = "no_results"
           /\ user_sessions' = user_sessions ]_vars

\* a search found nothing while the user holds an earlier entry
C6_Witness ==
    /\ last.handler \in {"handle_search", "handle_lyrics_to_download"}
    /\ last.shown = "no_results"
    /\ last.user \in DOMAIN user_sessions

\* C7 as stated: a search in which yt-dlp raised, whatever the query, shows
\* the no-results message, finds no candidate and lists none.
C7_ErrorGivesNoResults ==
    (/\ last.handler \in {"handle_search", "handle_lyrics_to_download"}
     /\ last.ydl \in {"ctor_raises", "extract_raises"})
    => /\ last.shown = "no_results"
       /\ last.found = << >>
       /\ last.keyboard = << >>

\* C8: after a fresh search listed N items, the N stored candidates are
\* rendered in order, each as one audio and one video button that carry the
\* candidate's id and its position in the stored list, counted from 0; the
\* only other buttons are the lyrics and the search-again button.
C8_TwoActionsPerCandidate ==
    (last.handler = "handle_search" /\ last.shown = "results") =>
        LET stored == user_sessions[last.user]["search_results"]
            N == Len(last.found)
        IN /\ N \in 1..8
           /\ Len(stored) = N
           /\ Len(last.keyboard) = 2 * N + 2
           /\ \A p \in 1..N :
                 /\ last.keyboard[2 * p - 1] = <<"download_mp3", stored[p].id, p - 1>>
                 /\ last.keyboard[2 * p] = <<"download_mp4", stored[p].id, p - 1>>
           /\ \A k \in (2 * N + 1)..(2 * N + 2) :
                 last.keyboard[k][1] \notin {"download_mp3", "download_mp4"}

\* a fresh search listed eight candidates
C8_Witness ==
    /\ last.handler = "handle_search"
    /\ last.shown = "results"
    /\ Len(last.found) = 8
    /\ Len(last.keyboard) = 18

\* C9: a stored candidate list never has more than 8 items, and the list a
\* re-search from a lyrics result has just stored never has more than 3.
C9_ListCapped ==
    /\ \A u \in DOMAIN user_sessions :
          "search_results" \in DOMAIN user_sessions[u]
          => Len(user_sessions[u]["search_results"]) <= 8
    /\ (last.handler = "handle_lyrics_to_download" /\ last.shown = "results")
          => Len(user_sessions[last.user]["search_results"]) <= 3

\* a re-search from a lyrics result stored a full list of three
C9_Witness ==
    /\ last.handler = "handle_lyrics_to_download"
    /\ last.shown = "results"
    /\ Len(user_sessions[last.user]["search_results"]) = 3

\* C10 as stated: the candidate a list selection resolves has the id the
\* pressed button carried.
C10_ResolvedIdIsCarriedId ==
    (last.handler \in ListHandlers /\ last.resolved # PyNone)
    => last.resolved.id = last.data[2]

\* C11: when the fetch of a resolved selection yields no file, because
\* yt-dlp raised or because it returned nothing, the user is shown the
\* download-failed message, no file and no promo message is sent, no
\* download record is appended, no deletion is scheduled, and the session
\* map is unchanged and still holds the resolved candidate.
C11_FetchFailureKeepsState ==
    [][ last'.outcome \in {"fetch_raises", "no_file"} =>
            /\ last'.shown = "download_failed"
            /\ last'.delivered = FALSE
            /\ last'.promo_messages = << >>
            /\ last'.raised = "none"
            /\ downloads' = downloads
            /\ delete_tasks' = delete_tasks
            /\ user_sessions' = user_sessions
            /\ last'.handler \in ListHandlers =>
                  last'.resolved =
                      PyIndex(user_sessions'[last'.user]["search_results"], last'.data[3])
            /\ last'.handler \in UrlHandlers =>
                  last'.resolved = user_sessions'[last'.user]["url_video"] ]_vars

\* a fetch yielded no file after an earlier download had been recorded
C11_Witness ==
    /\ last.outcome \in {"fetch_raises", "no_file"}
    /\ last.shown = "download_failed"
    /\ last.fetch # PyNone
    /\ downloads # << >>

\* a file was fetched into the temp directory by the latest handler run
FileFetched ==
    last.fetch # PyNone /\ last.outcome \notin {"none", "fetch_raises", "no_file"}

\* C12 as stated: no request that fetched a file ends, completed or failed,
\* with the file left in the temp directory.
C12_FetchedFileRemoved ==
    FileFetched => last.temp_file = "removed"

\* C13: an error while the promo is read or sent (sending happens only when
\* a promo is stored) is swallowed: the request
\* still ends as a completed download, nothing leaves the handler, and the
\* download record appended for it stays the last row of the table.  The
\* deferred deletion of the status message, failed or not, shows no error,
\* raises nothing and leaves the download records alone.
C13_SideEffectFailureSwallowed ==
    [][ /\ last'.outcome \in {"promo_fetch_raises", "promo_raises"}
           /\ last'.delivered /\ last'.fetch.format = "mp3"
           => /\ last'.shown = "download_complete"
              /\ last'.raised = "none"
              /\ last'.promo = IF last'.outcome = "promo_raises" /\ GetCurrentPromo(promos) = PyNone
                               THEN "none"
                               ELSE "swallowed_error"
              /\ downloads' = Append(downloads, [user_id |-> last'.user,
                                                 song_title |-> last'.resolved.title,
                                                 format |-> "mp3"])
        /\ last'.handler = "auto_delete_message"
           => /\ last'.shown \in {"status_deleted", "none"}
              /\ last'.raised = "none"
              /\ downloads' = downloads ]_vars

\* the promo photo could not be sent after a delivered file
C13_Witness ==
    /\ last.outcome = "promo_raises"
    /\ last.promo = "swallowed_error"
    /\ last.promo_messages = << SeparatorMessage >>
    /\ last.shown = "download_complete"
    /\ downloads # << >>

\* the promo photos among the messages the promo step sent
PromoPhotos == { k \in DOMAIN last.promo_messages : last.promo_messages[k].kind = "photo" }

\* C15 as stated: when a file was delivered, every collaborator did its
\* part and a current promo exists, exactly one promo photo follows; when
\* none exists the promo step sends nothing.
C15_OnePromoAfterDelivery ==
    (last.delivered /\ last.outcome = "sent") =>
        IF GetCurrentPromo(promos) # PyNone
        THEN Cardinality(PromoPhotos) = 1
        ELSE last.promo_messages = << >>

\* the latest handler run was the press of the audio button of a candidate
\* that the user's stored list holds at the carried index
AudioPressOfListed ==
    /\ last.handler \in {"button_callback", "handle_mp3_download"}
    /\ last.data[1] = "download_mp3"
    /\ HasCandidateList(last.user)
    /\ last.data[3] \in 0..(Len(user_sessions[last.user]["search_results"]) - 1)
    /\ user_sessions[last.user]["search_results"][last.data[3] + 1].id = last.data[2]

\* C14 as stated: a text query listed candidates and the user pressed the
\* audio button of one of them; the update handler then starts the fetch of
\* that candidate.
C14_AudioPressStartsFetch ==
    AudioPressOfListed =>
        /\ last.fetch # PyNone
        /\ last.resolved # PyNone
        /\ last.resolved.id = last.data[2]

\* the handlers behind the access gate, and what they hand over to
GatedEntries == {"handle_text_message", "search_command", "lyrics_command"}
GatedRuns == GatedEntries \cup {"handle_search", "handle_youtube_url", "handle_lyrics_search"}
NonMemberStatuses == MemberOutcomes \ {"raises", "member", "administrator", "creator"}

\* the latest handler run ended at the gate with the join-channel message
RefusedAtGate == last.handler \in GatedEntries /\ last.shown = "join_channel"

\* C17: for /search, /lyrics and free text the gate's decision is
\* isAdmin or no forced channel or member of the forced channel (an error
\* of the membership check counting as member).  An admin is never refused;
\* a user is refused, with the join-channel message and without any search,
\* exactly when the user is no admin, a forced channel is set and
\* get_chat_member reports a status that is no member status.
C17_GateIsAdminOrChannelOrMember ==
    last.handler \in GatedRuns =>
        LET admin == IsAdmin(last.user)
            configured == TruthyText(forced_channel)
        IN /\ gate.user = last.user
           /\ gate.channel = forced_channel
           /\ gate.allowed = (admin \/ ~configured
                                \/ gate.member \in {"member", "administrator", "creator"}
                                \/ gate.member = "raises")
           /\ RefusedAtGate <=> (~admin /\ configured /\ gate.member \in NonMemberStatuses)
           /\ RefusedAtGate <=> ~gate.allowed
           /\ RefusedAtGate => (last.ydl = "none" /\ last.found = << >>)

\* a non-admin who left the forced channel was refused
C17_Witness ==
    /\ RefusedAtGate
    /\ gate.member = "left"
    /\ ~IsAdmin(last.user)
    /\ TruthyText(forced_channel)

\* C18: when a forced channel is set and get_chat_member raises for a
\* non-admin, the user is let through: no join-channel message, no error
\* out of the handler, and the handler goes on to its search.
C18_GateFailsOpen ==
    (last.handler \in GatedRuns /\ gate.member = "raises") =>
        /\ gate.allowed
        /\ ~RefusedAtGate
        /\ last.raised = "none"
        /\ last.shown \notin {"join_channel", "error_handler"}
        /\ last.handler \in GatedRuns \ GatedEntries
           \/ last.shown \in {"search_usage", "lyrics_usage", "none"}

\* the membership check raised for a non-admin and the search listed results
C18_Witness ==
    /\ last.handler = "handle_search"
    /\ last.shown = "results"
    /\ gate.member = "raises"
    /\ ~gate.admin
    /\ TruthyText(gate.channel)

\* C16: after an admin's /addpromo in reply to a captioned photo the promo
\* table holds the new promo and nothing else, and get_current_promo returns
\* it, whatever the clock read and whatever created_at the replaced promo
\* carried; after an admin's /delpromo get_current_promo returns None.
C16_AddPromoReplaces ==
    /\ (last.handler = "addpromo_command" /\ IsAdmin(last.user)
        /\ last.reply # PyNone /\ last.reply.photo # << >>
        /\ (last.text # << >> \/ TruthyStr(last.reply.caption)))
       => /\ last.shown = "promo_added"
          /\ last.stored.file_id = last.reply.photo[Len(last.reply.photo)]
          /\ last.stored.caption # ""
          /\ promos = << last.stored >>
          /\ GetCurrentPromo(promos) = last.stored
    /\ (last.handler = "delpromo_command" /\ IsAdmin(last.user))
       => /\ promos = << >>
          /\ GetCurrentPromo(promos) = PyNone

\* a promo was stored whose created_at lies before that of the promo the
\* table held at the start
C16_Witness ==
    /\ last.handler = "addpromo_command"
    /\ last.shown = "promo_added"
    /\ last.stored.created_at < StoredPromo.created_at
    /\ GetCurrentPromo(promos) = last.stored

\* C19 as stated: a broadcast an admin started, its status message sent,
\* attempts every user of the users table exactly once, whichever sends
\* raise; when it completes, sent + failed is the number of recipients and
\* failed is the number of attempts that raised.
C19_BroadcastReachesAll ==
    (last.handler = "broadcast_command" /\ last.report # PyNone) =>
        LET report == last.report
            raised_for == {u \in users : \E k \in DOMAIN last.data : last.data[k] = u}
        IN /\ Len(report.attempts) = Cardinality(users)
           /\ \A u \in users :
                  Cardinality({k \in DOMAIN report.attempts : report.attempts[k] = u}) = 1
           /\ last.shown = "broadcast_complete" =>
                  /\ report.total = Cardinality(users)
                  /\ report.sent + report.failed = report.total
                  /\ report.failed = Cardinality(raised_for)

\* C20 as stated: while the request of one user is in flight, the update of
\* a different user can be handed to its handler, which is what puts two
\* users' requests in flight at once.
C20_OtherUserNotBlocked ==
    \A u \in in_flight : \E v \in Users \ {u} : ENABLED ProcessUpdate(v)

\* C21 as stated: whoever has interacted with the bot has a row in the users
\* table, and every download record carries the id of such a row.
C21_UserRecordFromFirstInteraction ==
    /\ last.user # 0 => last.user \in users
    /\ \A k \in DOMAIN downloads : downloads[k].user_id \in users

\* C24 as stated: a link-confirmation download pressed by a user whose entry
\* is a candidate list ends in a message that rejects the selection, raises
\* nothing and starts no fetch.
C24_LinkCallbackOnListRejected ==
    (/\ last.handler \in UrlHandlers
     /\ HasCandidateList(last.user))
    => /\ last.shown \in SessionExpired \cup {"invalid_selection"}
       /\ last.raised = "none"
       /\ last.fetch = PyNone

\* C25 as stated: a link submission stores the described item with the
\* submitted link as the user's entry, and shows the confirmation, exactly
\* when get_video_info returned metadata.
C25_LinkStoredIffDescribed ==
    last.handler = "handle_youtube_url" =>
        (last.found # << >>
         <=> /\ last.shown = "confirm"
             /\ last.user \in DOMAIN user_sessions
             /\ user_sessions[last.user] = [url_video |-> last.found[1],
                                            original_url |-> last.text])

\* C27 as stated: whichever handler listed the candidates, each of them has
\* an audio button and a video button that carry its id and its position.
C27_BothActionsInEveryList ==
    (last.handler \in {"handle_search", "handle_lyrics_to_download"}
     /\ last.shown = "results") =>
        \A p \in 1..Len(last.found) :
            /\ \E k \in DOMAIN last.keyboard :
                   last.keyboard[k] = <<"download_mp3", last.found[p].id, p - 1>>
            /\ \E k \in DOMAIN last.keyboard :
                   last.keyboard[k] = <<"download_mp4", last.found[p].id, p - 1>>

\* C28 as stated: a request that appended its download record is not
\* reported to the user as a failed download.
C28_RecordedNeverReportedFailed ==
    [][ downloads' # downloads => last'.shown # "download_failed" ]_vars

\* the latest handler run called the search, the lyrics or the fetch
\* collaborator
CollaboratorInvoked ==
    \/ last.ydl # "none"
    \/ last.fetch # PyNone
    \/ last.handler = "handle_lyrics_search"

\* C26 as stated: a collaborator is called for a user only when, at that
\* event, the user was an admin, or no forced channel was set, or the user
\* was a member of it (or the membership check failed).
C26_GateBeforeEveryCollaborator ==
    CollaboratorInvoked =>
        /\ gate.user = last.user
        /\ \/ gate.admin
           \/ ~TruthyText(gate.channel)
           \/ gate.member \in {"member", "administrator", "creator", "raises"}

\* C29: whatever /addadmin and /deladmin commands were sent by whomever,
\* the primary admin id is in the admin list, and a command of a user other
\* than the primary admin leaves the admin list as it was.
C29_PrimaryAdminStays ==
    /\ [] IsAdmin(primary_admin_id)
    /\ [][ last'.user # primary_admin_id => admin_user_ids' = admin_user_ids ]_vars

\* the primary admin asked for its own removal while another admin existed
C29_Witness ==
    /\ last.handler = "deladmin_command"
    /\ last.user = primary_admin_id
    /\ last.data = << primary_admin_id >>
    /\ last.shown = "cannot_remove_primary"
    /\ Len(admin_user_ids) >= 2
    /\ IsAdmin(primary_admin_id)

\* C30 as stated: after a /deladmin x that reported the removal, x is no
\* admin any more.
C30_RemovedIsNoAdmin ==
    (last.handler = "deladmin_command" /\ last.shown = "admin_removed")
    => ~IsAdmin(last.data[1])

====
